---- MODULE Spec2Model ----
(***************************************************************************)
(* State-machine model of the AI-agent step of workflow-builder-template:  *)
(* runAgentStep / stepHandler / buildTools and the tool functions          *)
(* (src/unnamed/part_002).                                                 *)
(*                                                                         *)
(* Representation.                                                         *)
(*  - A JS string that the code takes apart (parseInt, parseFloat, trim,   *)
(*    includes) is a sequence of one-character strings.  The JS value      *)
(*    undefined of such a field is the one-element sequence Undefined.     *)
(*  - A JS number is a record [nan, v]: nan says the number is NaN, v is   *)
(*    its value.  Integers (parseInt) are kept as they are, fractional     *)
(*    numbers (parseFloat) are fixed-point in units of 1/Scale.            *)
(***************************************************************************)
EXTENDS Integers, Sequences, FiniteSets, TLC

\* ------------------------------------------------------------------ bounds
\* longest numeric input string drawn for a configuration field
MaxLen == 3
\* number of tool calls the model places freely (any callable tool, any
\* outcome, grouped into turns in any way, with or without text); once they
\* are used up a turn is one plain tool call or a final answer
MaxFreeCalls == 2

\* --------------------------------------------------------- JS value helpers
Undefined == <<"undefined">>

Scale == 10 * 10 * 10

NaN == [nan |-> TRUE, v |-> 0]

Num(n) == [nan |-> FALSE, v |-> n]

\* x || d on strings: undefined and "" are falsy
StrOr(x, d) == IF x = Undefined \/ x = <<>> THEN d ELSE x

\* x || d on numbers: NaN and 0 are falsy
NumOr(x, d) == IF x.nan \/ x.v = 0 THEN Num(d) ELSE x

MathMax(a, b) == IF a.nan \/ b.nan THEN NaN ELSE IF a.v > b.v THEN a ELSE b

MathMin(a, b) == IF a.nan \/ b.nan THEN NaN ELSE IF a.v < b.v THEN a ELSE b

Digits == <<"0", "1", "2", "3", "4", "5", "6", "7", "8", "9">>

IsDigit(c) == \E i \in 1..10 : Digits[i] = c

DigitVal(c) == (CHOOSE i \in 1..10 : Digits[i] = c) - 1

IsWs(c) == c = " "

Drop(s, n) == SubSeq(s, n + 1, Len(s))

RECURSIVE SkipWs(_)
SkipWs(s) == IF s # <<>> /\ IsWs(Head(s)) THEN SkipWs(Tail(s)) ELSE s

RECURSIVE DigitPrefixLen(_)
DigitPrefixLen(s) ==
  IF s # <<>> /\ IsDigit(Head(s)) THEN 1 + DigitPrefixLen(Tail(s)) ELSE 0

RECURSIVE DigitsValue(_, _)
DigitsValue(s, acc) ==
  IF s = <<>> THEN acc ELSE DigitsValue(Tail(s), 10 * acc + DigitVal(Head(s)))

HasSign(s) == s # <<>> /\ Head(s) \in {"-", "+"}

SignOf(s) == IF s # <<>> /\ Head(s) = "-" THEN -1 ELSE 1

\* Number.parseInt(s, 10): leading white space, an optional sign, then the
\* longest run of decimal digits; NaN when that run is empty.
ParseInt(s) ==
  LET t == SkipWs(s)
      u == IF HasSign(t) THEN Tail(t) ELSE t
      n == DigitPrefixLen(u)
  IN  IF n = 0 THEN NaN
      ELSE Num(SignOf(t) * DigitsValue(SubSeq(u, 1, n), 0))

\* the first three fraction digits of f, as thousandths
FracValue(f) ==
  LET d(i) == IF i <= Len(f) THEN DigitVal(f[i]) ELSE 0
  IN  100 * d(1) + 10 * d(2) + d(3)

\* Number.parseFloat(s): leading white space, an optional sign, digits, an
\* optional "." and digits; NaN when there is no digit at all.  The alphabet
\* of the inputs has no exponent letter and no "Infinity".
ParseFloat(s) ==
  LET t  == SkipWs(s)
      u  == IF HasSign(t) THEN Tail(t) ELSE t
      n  == DigitPrefixLen(u)
      r  == Drop(u, n)
      hasDot == r # <<>> /\ Head(r) = "."
      m  == IF hasDot THEN DigitPrefixLen(Tail(r)) ELSE 0
      ip == DigitsValue(SubSeq(u, 1, n), 0)
      fp == IF hasDot THEN FracValue(SubSeq(Tail(r), 1, m)) ELSE 0
  IN  IF n + m = 0 THEN NaN
      ELSE Num(SignOf(t) * (ip * Scale + fp))


\* x.includes(sub) on character sequences
Includes(s, sub) ==
  \E i \in 0..(Len(s) - Len(sub)) : SubSeq(s, i + 1, i + Len(sub)) = sub

\* ------------------------------------------------------------- credentials
NoCredentials ==
  [AI_GATEWAY_API_KEY |-> "", OPENAI_API_KEY |-> "", ANTHROPIC_API_KEY |-> "",
   GOOGLE_API_KEY |-> "", GROQ_API_KEY |-> "", MISTRAL_API_KEY |-> "",
   XAI_API_KEY |-> ""]

\* variant: no fall back to the gateway key
getProviderApiKeyOwnOnly(credentials, provider) ==
  CASE provider = "openai"    -> credentials.OPENAI_API_KEY
    [] provider = "anthropic" -> credentials.ANTHROPIC_API_KEY
    [] provider = "google"    -> credentials.GOOGLE_API_KEY
    [] provider = "groq"      -> credentials.GROQ_API_KEY
    [] provider = "mistral"   -> credentials.MISTRAL_API_KEY
    [] provider = "xai"       -> credentials.XAI_API_KEY
    [] OTHER                  -> ""

\* variant: the gateway key is preferred to the provider's own key
getProviderApiKeyGatewayFirst(credentials, provider) ==
  LET own == CASE provider = "openai"    -> credentials.OPENAI_API_KEY
               [] provider = "anthropic" -> credentials.ANTHROPIC_API_KEY
               [] provider = "google"    -> credentials.GOOGLE_API_KEY
               [] provider = "groq"      -> credentials.GROQ_API_KEY
               [] provider = "mistral"   -> credentials.MISTRAL_API_KEY
               [] provider = "xai"       -> credentials.XAI_API_KEY
               [] OTHER                  -> ""
  IN  IF credentials.AI_GATEWAY_API_KEY # "" THEN credentials.AI_GATEWAY_API_KEY
      ELSE own

\* the provider's own key when it is set, else the gateway key ("" is the
\* falsy/undefined key)
getProviderApiKey(credentials, provider) ==
  LET own == CASE provider = "openai"    -> credentials.OPENAI_API_KEY
               [] provider = "anthropic" -> credentials.ANTHROPIC_API_KEY
               [] provider = "google"    -> credentials.GOOGLE_API_KEY
               [] provider = "groq"      -> credentials.GROQ_API_KEY
               [] provider = "mistral"   -> credentials.MISTRAL_API_KEY
               [] provider = "xai"       -> credentials.XAI_API_KEY
               [] OTHER                  -> ""
  IN  IF own # "" THEN own ELSE credentials.AI_GATEWAY_API_KEY

\* ---------------------------------------------------------------- model ids
Gpt4o == <<"o","p","e","n","a","i","/","g","p","t","-","4","o">>

OpenaiO1 == <<"o","p","e","n","a","i","/","o","1">>

OpenaiO1Mini == <<"o","p","e","n","a","i","/","o","1","-","m","i","n","i">>

OpenaiO3Mini == <<"o","p","e","n","a","i","/","o","3","-","m","i","n","i">>

ClaudeHaiku ==
  <<"a","n","t","h","r","o","p","i","c","/","c","l","a","u","d","e","-","3",
    "-","h","a","i","k","u">>

Grok3 == <<"x","a","i","/","g","r","o","k","-","3">>

\* model ids the catalog flags isReasoning: true
ReasoningCatalog == {OpenaiO1, OpenaiO1Mini, OpenaiO3Mini}

DEFAULT_MODEL == Gpt4o

\* the a || b || ... || "openai/gpt-4o" chain: the field of the chosen
\* provider when it is a non-empty string, else the default id
ResolveModelId(in, provider) ==
  LET f == CASE provider = "openai"    -> in.agentModelOpenai
             [] provider = "anthropic" -> in.agentModelAnthropic
             [] provider = "google"    -> in.agentModelGoogle
             [] provider = "meta"      -> in.agentModelMeta
             [] provider = "mistral"   -> in.agentModelMistral
             [] provider = "groq"      -> in.agentModelGroq
             [] provider = "xai"       -> in.agentModelXai
             [] OTHER                  -> Undefined
  IN  StrOr(f, DEFAULT_MODEL)

\* variant: only the o1 family is recognised
IsReasoningModelO1Only(modelId) == Includes(modelId, <<"/","o","1">>)

IsReasoningModel(modelId) ==
  Includes(modelId, <<"/","o","1">>) \/ Includes(modelId, <<"/","o","3">>)

\* --------------------------------------------------- numeric configuration
MinSteps == 1

MaxSteps == 50

DefaultSteps == 10

Ten == <<"1", "0">>

\* variant: the upper clamp is missing
ResolveMaxStepsNoCeiling(in) ==
  MathMax(Num(MinSteps), NumOr(ParseInt(StrOr(in.agentMaxSteps, Ten)), DefaultSteps))

\* Math.min(50, Math.max(1, Number.parseInt(agentMaxSteps || "10", 10) || 10))
ResolveMaxSteps(in) ==
  MathMin(Num(MaxSteps),
          MathMax(Num(MinSteps),
                  NumOr(ParseInt(StrOr(in.agentMaxSteps, Ten)), DefaultSteps)))

DefaultTemperature == 7 * (Scale \div 10)

DefaultMaxTokens == 4096

DefaultTopP == Scale

DefaultPenalty == 0

Str07 == <<"0", ".", "7">>

Str4096 == <<"4", "0", "9", "6">>

Str10 == <<"1", ".", "0">>

Str0 == <<"0">>

\* variant: any non-empty agentShowAdvanced turns the advanced settings on
ShowAdvancedTruthy(in) == in.agentShowAdvanced # ""

\* input.agentShowAdvanced === "true"
ShowAdvanced(in) == in.agentShowAdvanced = "true"

\* Math.max(lo, Math.min(hi, Number.parseFloat(field || dflt)))
ClampFloat(field, dflt, lo, hi) ==
  MathMax(Num(lo * Scale), MathMin(Num(hi * Scale), ParseFloat(StrOr(field, dflt))))

ResolveTemperature(in) ==
  IF ShowAdvanced(in) THEN ClampFloat(in.agentTemperature, Str07, 0, 2)
  ELSE Num(DefaultTemperature)

ResolveMaxTokens(in) ==
  IF ShowAdvanced(in)
  THEN MathMax(Num(1), ParseInt(StrOr(in.agentMaxTokens, Str4096)))
  ELSE Num(DefaultMaxTokens)

ResolveTopP(in) ==
  IF ShowAdvanced(in) THEN ClampFloat(in.agentTopP, Str10, 0, 1)
  ELSE Num(DefaultTopP)

ResolveFrequencyPenalty(in) ==
  IF ShowAdvanced(in) THEN ClampFloat(in.agentFrequencyPenalty, Str0, -2, 2)
  ELSE Num(DefaultPenalty)

ResolvePresencePenalty(in) ==
  IF ShowAdvanced(in) THEN ClampFloat(in.agentPresencePenalty, Str0, -2, 2)
  ELSE Num(DefaultPenalty)


\* --------------------------------------------------------------- tool set
\* s.split(","): the segments between the separators, each a sequence
RECURSIVE SplitComma(_, _)
SplitComma(s, cur) ==
  IF s = <<>> THEN <<cur>>
  ELSE IF Head(s) = "," THEN <<cur>> \o SplitComma(Tail(s), <<>>)
  ELSE SplitComma(Tail(s), Append(cur, Head(s)))

RECURSIVE TrimEnd(_)
TrimEnd(s) == IF s # <<>> /\ IsWs(s[Len(s)]) THEN TrimEnd(SubSeq(s, 1, Len(s) - 1)) ELSE s

\* variant: the string is used as it was given
NoTrim(s) == s

\* s.trim()
Trim(s) == TrimEnd(SkipWs(s))

\* agentTools is a sequence of tokens, each a whole tool name or the
\* separator ","; a segment of the split is one name, or "" when empty
SegmentName(seg) == IF seg = <<>> THEN "" ELSE seg[1]

SplitTools(toks) ==
  LET segs == SplitComma(toks, <<>>)
  IN  [i \in 1..Len(segs) |-> SegmentName(segs[i])]

DEFAULT_TOOLS == <<"web_search", ",", "scrape_url", ",", "calculate">>

NativeTools ==
  [web_search |-> "webSearch", scrape_url |-> "scrapeUrl",
   http_request |-> "httpRequest", calculate |-> "calculate"]

FirecrawlTools ==
  [firecrawl_search |-> "firecrawlSearch", firecrawl_scrape |-> "firecrawlScrape"]

AllTools(firecrawlApiKey) ==
  IF firecrawlApiKey # "" THEN NativeTools @@ FirecrawlTools ELSE NativeTools

\* the properties every object literal inherits from Object.prototype (two of
\* them stand for all): `name in obj` and obj[name] see them too
ObjectPrototype ==
  [constructor |-> "Object", toString |-> "Object.prototype.toString"]

\* name in obj
HasProperty(obj, name) == name \in DOMAIN obj \/ name \in DOMAIN ObjectPrototype

\* obj[name]
GetProperty(obj, name) ==
  IF name \in DOMAIN obj THEN obj[name] ELSE ObjectPrototype[name]

\* variant: the native replacement is registered under the premium name
RECURSIVE SelectToolsSameName(_, _, _, _)
SelectToolsSameName(selected, allTools, firecrawlApiKey, tools) ==
  IF selected = <<>> THEN tools
  ELSE LET name == Head(selected)
           next ==
             IF HasProperty(allTools, name)
             THEN (name :> GetProperty(allTools, name)) @@ tools
             ELSE IF name = "firecrawl_search" /\ firecrawlApiKey = ""
             THEN ("firecrawl_search" :> allTools["web_search"]) @@ tools
             ELSE IF name = "firecrawl_scrape" /\ firecrawlApiKey = ""
             THEN ("firecrawl_scrape" :> allTools["scrape_url"]) @@ tools
             ELSE tools
       IN  SelectToolsSameName(Tail(selected), allTools, firecrawlApiKey, next)

\* the loop over selectedTools, `tools` being the object built so far
RECURSIVE SelectTools(_, _, _, _)
SelectTools(selected, allTools, firecrawlApiKey, tools) ==
  IF selected = <<>> THEN tools
  ELSE LET name == Head(selected)
           next ==
             IF HasProperty(allTools, name)
             THEN (name :> GetProperty(allTools, name)) @@ tools
             ELSE IF name = "firecrawl_search" /\ firecrawlApiKey = ""
             THEN ("web_search" :> allTools["web_search"]) @@ tools
             ELSE IF name = "firecrawl_scrape" /\ firecrawlApiKey = ""
             THEN ("scrape_url" :> allTools["scrape_url"]) @@ tools
             ELSE tools
       IN  SelectTools(Tail(selected), allTools, firecrawlApiKey, next)

\* the tools of the selection, a map from the declared tool name to the
\* function that executes it
buildTools(selectedTools, firecrawlApiKey) ==
  SelectTools(selectedTools, AllTools(firecrawlApiKey), firecrawlApiKey, <<>>)

\* ------------------------------------------------------------ tool functions
\* Each tool function catches every failure of its request and returns a
\* string.  net is what the request met: "ok" or "fail" (network error,
\* non-2xx status, unparsable body).  The output is the message together with
\* the argument it is about.
Out(msg, arg) == [msg |-> msg, about |-> arg]

webSearch(query, net) ==
  IF net = "fail" THEN Out("No search results found for", query)
  ELSE Out("1. results", query)

scrapeUrl(url, net) ==
  IF net = "fail" THEN Out("Failed to scrape URL: ", url)
  ELSE Out("Content:", url)

httpRequest(url, net) ==
  IF net = "fail" THEN Out("HTTP request failed: ", url)
  ELSE Out("body", url)

calculate(expression, net) ==
  IF net = "fail" THEN Out("Could not evaluate expression", expression)
  ELSE Out("value", expression)

firecrawlSearch(query, net) ==
  IF net = "fail" THEN Out("Firecrawl search failed: ", query)
  ELSE Out("1. results", query)

firecrawlScrape(url, net) ==
  IF net = "fail" THEN Out("Firecrawl scrape failed: ", url)
  ELSE Out("Content:", url)

\* the failure strings of the tool functions
ErrorOutputs ==
  {"No search results found for", "Failed to scrape URL: ", "HTTP request failed: ",
   "Could not evaluate expression", "Firecrawl search failed: ",
   "Firecrawl scrape failed: "}

\* variant: a failure inside the tool function is thrown, not returned
ExecuteThrowing(fn, arg, net) ==
  [threw |-> net = "fail",
   output |-> CASE fn = "webSearch"       -> webSearch(arg, net)
                [] fn = "scrapeUrl"       -> scrapeUrl(arg, net)
                [] fn = "httpRequest"     -> httpRequest(arg, net)
                [] fn = "calculate"       -> calculate(arg, net)
                [] fn = "firecrawlSearch" -> firecrawlSearch(arg, net)
                [] fn = "firecrawlScrape" -> firecrawlScrape(arg, net)]

\* execute of a tool: [threw, output]; no tool function lets a failure out
Execute(fn, arg, net) ==
  [threw |-> FALSE,
   output |-> CASE fn = "webSearch"       -> webSearch(arg, net)
                [] fn = "scrapeUrl"       -> scrapeUrl(arg, net)
                [] fn = "httpRequest"     -> httpRequest(arg, net)
                [] fn = "calculate"       -> calculate(arg, net)
                [] fn = "firecrawlSearch" -> firecrawlSearch(arg, net)
                [] fn = "firecrawlScrape" -> firecrawlScrape(arg, net)]

\* ------------------------------------------------------------ onStepFinish
\* variant: the result entry is pushed before the call entry
RECURSIVE RecordCallsResultFirst(_, _, _, _, _)
RecordCallsResultFirst(steps, count, toolCalls, toolResults, i) ==
  IF i > Len(toolCalls) THEN [steps |-> steps, count |-> count, threw |-> FALSE]
  ELSE LET tc == toolCalls[i]
       IN  IF i > Len(toolResults)
           THEN [steps |-> steps, count |-> count, threw |-> TRUE]
           ELSE RecordCallsResultFirst(
                  Append(Append(steps,
                                [type |-> "tool_result", toolName |-> tc.toolName,
                                 output |-> toolResults[i].output]),
                         [type |-> "tool_call", toolName |-> tc.toolName,
                          input |-> tc.input]),
                  count + 1, toolCalls, toolResults, i + 1)

\* The loop of the callback from index i on.  toolResults[i] of an index
\* past the end of toolResults is undefined and reading its output throws a
\* TypeError, after the tool_call entry of that index was pushed.
RECURSIVE RecordCalls(_, _, _, _, _)
RecordCalls(steps, count, toolCalls, toolResults, i) ==
  IF i > Len(toolCalls) THEN [steps |-> steps, count |-> count, threw |-> FALSE]
  ELSE LET tc == toolCalls[i]
           withCall == Append(steps, [type |-> "tool_call", toolName |-> tc.toolName,
                                      input |-> tc.input])
       IN  IF i > Len(toolResults)
           THEN [steps |-> withCall, count |-> count, threw |-> TRUE]
           ELSE RecordCalls(
                  Append(withCall, [type |-> "tool_result", toolName |-> tc.toolName,
                                    output |-> toolResults[i].output]),
                  count + 1, toolCalls, toolResults, i + 1)

\* variant: the counter counts the turns that called a tool, not the calls
onStepFinishCountingTurns(steps, count, toolCalls, toolResults, text) ==
  LET r == RecordCalls(steps, count, toolCalls, toolResults, 1)
      c == IF Len(toolCalls) > 0 THEN count + 1 ELSE count
  IN  IF r.threw THEN r
      ELSE IF text = <<>> THEN [r EXCEPT !.count = c]
      ELSE [steps |-> Append(r.steps, [type |-> "text", text |-> text]),
            count |-> c, threw |-> FALSE]

\* onStepFinish({toolCalls, toolResults, text}); text <<>> is the empty string
onStepFinish(steps, count, toolCalls, toolResults, text) ==
  LET r == RecordCalls(steps, count, toolCalls, toolResults, 1)
  IN  IF r.threw \/ text = <<>> THEN r
      ELSE [r EXCEPT !.steps = Append(r.steps, [type |-> "text", text |-> text])]


\* ------------------------------------------------------------------- state
VARIABLES
  input,            \* the RunAgentInput of the call
  env,              \* what fetchCredentials answers for the two integrations
  pc,               \* position of the call
  credentials,      \* runAgentStep's credentials
  firecrawlApiKey,  \* runAgentStep's firecrawlApiKey ("" is undefined)
  request,          \* the options object handed to generateText
  agentSteps,       \* stepHandler's transcript accumulator
  toolCallCount,    \* stepHandler's counter
  turns,            \* model turns (steps) generateText has completed
  lastCalls,        \* number of tool calls of the last completed turn
  lastText,         \* text of the last completed turn (result.text)
  result,           \* what runAgentStep returned
  hist,             \* history: what happened during generation
  modelCache,       \* the catalog endpoint's Map: provider -> entry
  clock,            \* Date.now()
  lookups,          \* the catalog lookups (GET requests), each with its position
  call,             \* one invocation of a tool function on its own
  runs              \* agent runs executing side by side, each with its closure

runVars == <<input, env, pc, credentials, firecrawlApiKey, request, agentSteps,
             toolCallCount, turns, lastCalls, lastText, result, hist>>

vars == <<input, env, pc, credentials, firecrawlApiKey, request, agentSteps,
          toolCallCount, turns, lastCalls, lastText, result, hist,
          modelCache, clock, lookups, call, runs>>

NoResult == [pending |-> TRUE]

NoRequest == [none |-> TRUE]

Success(text, steps, n) ==
  [success |-> TRUE, data |-> [result |-> text, steps |-> steps, toolCalls |-> n]]

Failure(message) == [success |-> FALSE, error |-> [message |-> message]]

\* history of the generation: generateText rejected on its own (raised), the
\* callback threw (threw), the model made a call the SDK gave no result for
\* (rejected), a tool call failed inside its tool function (toolFailed, first
\* in turn failedTurn), and the answers of the model, turn by turn (answers)
NoHist == [raised |-> FALSE, threw |-> FALSE, rejected |-> FALSE,
           toolFailed |-> FALSE, failedTurn |-> 0, answers |-> <<>>]

\* provider.charAt(0).toUpperCase() + provider.slice(1)
Capitalize(provider) ==
  CASE provider = "openai"    -> "Openai"
    [] provider = "anthropic" -> "Anthropic"
    [] provider = "google"    -> "Google"
    [] provider = "meta"      -> "Meta"
    [] provider = "mistral"   -> "Mistral"
    [] provider = "groq"      -> "Groq"
    [] provider = "xai"       -> "Xai"
    [] OTHER                  -> provider

\* getErrorMessageAsync(error): a message for whatever was thrown
getErrorMessageAsync(error) == error

PLACEHOLDER == <<"Agent completed without a final response">>


\* ----------------------------------------------------------- stepHandler
Provider(in) == IF in.agentProvider = "" THEN "openai" ELSE in.agentProvider

\* input.agentStopSequences ? split(",").map(trim) : undefined
StopSequences(in) ==
  IF in.agentStopSequences = Undefined \/ in.agentStopSequences = <<>> THEN Undefined
  ELSE LET segs == SplitComma(in.agentStopSequences, <<>>)
       IN  [i \in 1..Len(segs) |-> Trim(segs[i])]

ReasoningEffort(in) ==
  IF in.agentReasoningEffort = "" THEN "medium" ELSE in.agentReasoningEffort

ResponseFormat(in) ==
  IF in.agentResponseFormat = "" THEN "text" ELSE in.agentResponseFormat

DEFAULT_SYSTEM_PROMPT == "You are an autonomous AI agent"

\* providerOptions.openai; the empty record when providerOptions stays undefined
OpenaiOptions(in, modelId) ==
  (IF ResponseFormat(in) = "json" THEN [responseFormat |-> "json_object"] ELSE <<>>)
  @@ (IF IsReasoningModel(modelId) THEN [reasoningEffort |-> ReasoningEffort(in)]
      ELSE <<>>)

\* the object literal passed to generateText: a record that has a key exactly
\* when the literal (with its conditional spreads) has it
BuildRequest(in, apiKey, modelId, goal, tools) ==
  [model |-> modelId, apiKey |-> apiKey,
   system |-> IF in.agentSystemPrompt = "" THEN DEFAULT_SYSTEM_PROMPT
              ELSE in.agentSystemPrompt,
   prompt |-> goal, tools |-> tools,
   stopWhen |-> ResolveMaxSteps(in),
   maxOutputTokens |-> ResolveMaxTokens(in)]
  @@ (IF IsReasoningModel(modelId) THEN <<>>
      ELSE [temperature |-> ResolveTemperature(in), topP |-> ResolveTopP(in),
            frequencyPenalty |-> ResolveFrequencyPenalty(in),
            presencePenalty |-> ResolvePresencePenalty(in)])
  @@ (IF StopSequences(in) # Undefined /\ Len(StopSequences(in)) > 0
      THEN [stopSequences |-> StopSequences(in)] ELSE <<>>)
  @@ (IF IsReasoningModel(modelId) \/ ResponseFormat(in) = "json"
      THEN [providerOptions |-> [openai |-> OpenaiOptions(in, modelId)]] ELSE <<>>)

\* runAgentStep, first await: the agent integration's credentials.  The call
\* is outside every try block, so its exception leaves runAgentStep.
FetchAgentCredentials ==
  /\ pc = "entry"
  /\ IF input.integrationId = ""
     THEN credentials' = NoCredentials /\ pc' = "firecrawl"
     ELSE IF env.agent.throws
     THEN pc' = "threw" /\ UNCHANGED credentials
     ELSE credentials' = env.agent.creds /\ pc' = "firecrawl"
  /\ UNCHANGED <<modelCache, clock, lookups, call, runs>>
  /\ UNCHANGED <<input, env, firecrawlApiKey, request, agentSteps, toolCallCount,
                 turns, lastCalls, lastText, result, hist>>

\* runAgentStep: the Firecrawl key, a failed lookup being ignored
FetchFirecrawlCredentials ==
  /\ pc = "firecrawl"
  /\ firecrawlApiKey' =
       IF input.agentFirecrawlIntegrationId # "" /\ ~env.firecrawl.throws
       THEN env.firecrawl.creds.FIRECRAWL_API_KEY ELSE ""
  /\ pc' = "handler"
  /\ UNCHANGED <<modelCache, clock, lookups, call, runs>>
  /\ UNCHANGED <<input, env, credentials, request, agentSteps, toolCallCount,
                 turns, lastCalls, lastText, result, hist>>

\* variant: the missing key is not looked at
StepHandlerNoKeyCheck ==
  /\ pc = "handler"
  /\ LET provider == Provider(input)
         modelId  == ResolveModelId(input, provider)
         apiKey   == getProviderApiKey(credentials, provider)
         goal     == IF input.agentGoal = Undefined THEN Undefined
                     ELSE Trim(input.agentGoal)
         selectedTools == SplitTools(StrOr(input.agentTools, DEFAULT_TOOLS))
         tools    == buildTools(selectedTools, firecrawlApiKey)
     IN  IF goal = Undefined \/ goal = <<>>
         THEN /\ result' = Failure(<<"Goal is required for the agent">>)
              /\ pc' = "done"
              /\ UNCHANGED <<request, agentSteps, toolCallCount>>
         ELSE /\ request' = BuildRequest(input, apiKey, modelId, goal, tools)
              /\ agentSteps' = <<>>
              /\ toolCallCount' = 0
              /\ pc' = "generating"
              /\ UNCHANGED result
  /\ UNCHANGED <<modelCache, clock, lookups, call, runs>>
  /\ UNCHANGED <<input, env, credentials, firecrawlApiKey, turns, lastCalls,
                 lastText, hist>>


\* stepHandler up to the generateText call: the two configuration errors
\* return at once, otherwise the request is built and generation starts
StepHandler ==
  /\ pc = "handler"
  /\ LET provider == Provider(input)
         modelId  == ResolveModelId(input, provider)
         apiKey   == getProviderApiKey(credentials, provider)
         goal     == IF input.agentGoal = Undefined THEN Undefined
                     ELSE Trim(input.agentGoal)
         selectedTools == SplitTools(StrOr(input.agentTools, DEFAULT_TOOLS))
         tools    == buildTools(selectedTools, firecrawlApiKey)
     IN  IF apiKey = ""
         THEN /\ result' = Failure(<<"No API key configured for ", Capitalize(provider)>>)
              /\ pc' = "done"
              /\ UNCHANGED <<request, agentSteps, toolCallCount>>
         ELSE IF goal = Undefined \/ goal = <<>>
         THEN /\ result' = Failure(<<"Goal is required for the agent">>)
              /\ pc' = "done"
              /\ UNCHANGED <<request, agentSteps, toolCallCount>>
         ELSE /\ request' = BuildRequest(input, apiKey, modelId, goal, tools)
              /\ agentSteps' = <<>>
              /\ toolCallCount' = 0
              /\ pc' = "generating"
              /\ UNCHANGED result
  /\ UNCHANGED <<modelCache, clock, lookups, call, runs>>
  /\ UNCHANGED <<input, env, credentials, firecrawlApiKey, turns, lastCalls,
                 lastText, hist>>


\* ------------------------------------------------------------ generateText
\* What a tool call of the model meets: its request succeeds ("ok"), fails
\* inside the tool function ("fail"), or the SDK reports no result for the
\* call ("rejected": arguments that fail the input schema).
Outcomes == {"ok", "fail", "rejected"}

\* the tools the model of this run calls
CallableNames == {"scrape_url", "calculate", "firecrawl_scrape"}

Callable(tools) == DOMAIN tools \cap CallableNames

CallsUpTo(names, n) ==
  UNION {[1..k -> [toolName : names, outcome : Outcomes]] : k \in 0..n}

\* the tool of the plain turns
PlainNames(tools) == Callable(tools) \cap {"calculate"}

TextOf(t) == <<"text of turn", t>>

\* what the model may answer in turn t when it has placed `placed` calls
TurnInputs(t, tools, placed) ==
  IF placed < MaxFreeCalls
  THEN [calls : CallsUpTo(Callable(tools), MaxFreeCalls - placed),
        text : {<<>>, TextOf(t)}]
  ELSE [calls : {<<>>}, text : {<<>>, TextOf(t)}]
       \cup [calls : {<<[toolName |-> n, outcome |-> "ok"]>> : n \in PlainNames(tools)},
             text : {<<>>}]

\* stopWhen: stepCountIs(maxSteps), and the SDK's own rule that a turn
\* without tool calls is the last one
LoopContinues ==
  turns = 0 \/ (lastCalls > 0 /\ turns < request.stopWhen.v)

\* the toolCalls of a turn, in request order
ToolCallsOf(t, calls) ==
  [i \in 1..Len(calls) |-> [toolName |-> calls[i].toolName,
                            input |-> [turn |-> t, idx |-> i]]]

\* the toolResults of a turn: the results of the calls that produced one, in
\* request order
RECURSIVE ToolResultsOf(_, _, _, _)
ToolResultsOf(tools, toolCalls, calls, i) ==
  IF i > Len(calls) THEN <<>>
  ELSE LET e == Execute(tools[calls[i].toolName], toolCalls[i].input, calls[i].outcome)
           rest == ToolResultsOf(tools, toolCalls, calls, i + 1)
       IN  IF calls[i].outcome = "rejected" \/ e.threw THEN rest
           ELSE <<[toolName |-> calls[i].toolName, output |-> e.output]>> \o rest

\* One model turn inside generateText: the requested tools run one after the
\* other, then onStepFinish records the turn.  An exception of the callback
\* ends generateText and is caught by stepHandler's catch.
ModelTurn ==
  /\ pc = "generating"
  /\ LoopContinues
  /\ \E tin \in TurnInputs(turns + 1, request.tools, toolCallCount) :
       LET t == turns + 1
           toolCalls == ToolCallsOf(t, tin.calls)
           toolResults == ToolResultsOf(request.tools, toolCalls, tin.calls, 1)
           r == onStepFinish(agentSteps, toolCallCount, toolCalls, toolResults, tin.text)
           failed == \E i \in 1..Len(tin.calls) : tin.calls[i].outcome = "fail"
           rejected == \E i \in 1..Len(tin.calls) : tin.calls[i].outcome = "rejected"
       IN  /\ agentSteps' = r.steps
           /\ toolCallCount' = r.count
           /\ IF r.threw
              THEN /\ result' = Failure(<<"Agent execution failed: ",
                                          getErrorMessageAsync("TypeError")>>)
                   /\ pc' = "done"
                   /\ hist' = [hist EXCEPT !.threw = TRUE,
                                            !.rejected = @ \/ rejected,
                                            !.toolFailed = @ \/ failed,
                                            !.answers = Append(@, tin)]
                   /\ UNCHANGED <<turns, lastCalls, lastText>>
              ELSE /\ turns' = t
                   /\ lastCalls' = Len(tin.calls)
                   /\ lastText' = tin.text
                   /\ hist' = [hist EXCEPT
                                 !.answers = Append(@, tin),
                                 !.toolFailed = @ \/ failed,
                                 !.failedTurn = IF @ = 0 /\ failed THEN t ELSE @]
                   /\ UNCHANGED <<pc, result>>
  /\ UNCHANGED <<modelCache, clock, lookups, call, runs>>
  /\ UNCHANGED <<input, env, credentials, firecrawlApiKey, request>>

\* variant: the catch returns what was recorded so far as a success
GenerationRaisesPartialSuccess ==
  /\ pc = "generating"
  /\ result' = Success(PLACEHOLDER, agentSteps, toolCallCount)
  /\ pc' = "done"
  /\ hist' = [hist EXCEPT !.raised = TRUE]
  /\ UNCHANGED <<modelCache, clock, lookups, call, runs>>
  /\ UNCHANGED <<input, env, credentials, firecrawlApiKey, request, agentSteps,
                 toolCallCount, turns, lastCalls, lastText>>

\* generateText rejects (invalid model id, network failure, malformed provider
\* response): stepHandler's catch returns the failure
GenerationRaises ==
  /\ pc = "generating"
  /\ result' = Failure(<<"Agent execution failed: ",
                         getErrorMessageAsync("provider error")>>)
  /\ pc' = "done"
  /\ hist' = [hist EXCEPT !.raised = TRUE]
  /\ UNCHANGED <<modelCache, clock, lookups, call, runs>>
  /\ UNCHANGED <<input, env, credentials, firecrawlApiKey, request, agentSteps,
                 toolCallCount, turns, lastCalls, lastText>>

\* variant: the text of the last turn is returned as it is
GenerationReturnsLastText ==
  /\ pc = "generating"
  /\ ~LoopContinues
  /\ result' = Success(lastText, agentSteps, toolCallCount)
  /\ pc' = "done"
  /\ UNCHANGED <<modelCache, clock, lookups, call, runs>>
  /\ UNCHANGED <<input, env, credentials, firecrawlApiKey, request, agentSteps,
                 toolCallCount, turns, lastCalls, lastText, hist>>

\* generateText resolves: the success record
GenerationReturns ==
  /\ pc = "generating"
  /\ ~LoopContinues
  /\ result' = Success(IF lastText = <<>> THEN PLACEHOLDER ELSE lastText,
                       agentSteps, toolCallCount)
  /\ pc' = "done"
  /\ UNCHANGED <<modelCache, clock, lookups, call, runs>>
  /\ UNCHANGED <<input, env, credentials, firecrawlApiKey, request, agentSteps,
                 toolCallCount, turns, lastCalls, lastText, hist>>


\* ------------------------------------------------------- the model catalog
\* lists of models are sequences of model ids
FALLBACK_MODELS ==
  [openai |-> <<"openai/gpt-4o", "openai/gpt-4o-mini", "openai/gpt-4-turbo",
                "openai/gpt-3.5-turbo", "openai/o1", "openai/o1-mini",
                "openai/o3-mini">>,
   anthropic |-> <<"anthropic/claude-opus-4.5", "anthropic/claude-sonnet-4.0",
                   "anthropic/claude-3.7-sonnet",
                   "anthropic/claude-3.5-sonnet-20241022",
                   "anthropic/claude-3-haiku">>,
   google |-> <<"google/gemini-2.5-pro", "google/gemini-2.5-flash",
                "google/gemini-2.0-flash", "google/gemini-2.0-flash-lite">>,
   meta |-> <<"meta/llama-4-maverick", "meta/llama-4-scout", "meta/llama-3.3-70b",
              "meta/llama-3.1-8b">>,
   mistral |-> <<"mistral/mistral-large", "mistral/mistral-medium",
                 "mistral/mistral-small", "mistral/codestral">>,
   groq |-> <<"groq/llama-3.3-70b", "groq/llama-3.1-8b", "groq/mixtral-8x7b",
              "groq/gemma2-9b">>]

CACHE_TTL_MS == 24 * 60 * 60 * 1000

\* FALLBACK_MODELS[provider] || []: a property the object literal inherits is
\* found too, and its value (written as a one-element list) is truthy
FallbackOrEmpty(provider) ==
  IF HasProperty(FALLBACK_MODELS, provider)
  THEN (IF provider \in DOMAIN FALLBACK_MODELS THEN FALLBACK_MODELS[provider]
        ELSE <<GetProperty(FALLBACK_MODELS, provider)>>)
  ELSE <<>>

\* what the request to the models endpoint of OpenAI may come to: a response
\* with a status and the ids of data.data, or a rejection (network failure,
\* a body that is not the expected JSON) with the message of its Error
FetchOutcomes ==
  {[kind |-> "response", status |-> 200, ids |-> <<"gpt-4o", "whisper-1", "o1">>,
    message |-> ""],
   [kind |-> "response", status |-> 200, ids |-> <<"whisper-1">>, message |-> ""],
   [kind |-> "response", status |-> 500, ids |-> <<>>, message |-> ""],
   [kind |-> "rejects", status |-> 0, ids |-> <<>>, message |-> "fetch failed"]}

\* m.id.startsWith("gpt-") || m.id.startsWith("o1") || m.id.startsWith("o3"),
\* on the ids of FetchOutcomes
IsChatModel(id) == id \in {"gpt-4o", "o1"}

\* `openai/${m.id}`, on the ids of FetchOutcomes
OpenaiId(id) ==
  CASE id = "gpt-4o" -> "openai/gpt-4o"
    [] id = "o1" -> "openai/o1"
    [] id = "whisper-1" -> "openai/whisper-1"

Returns(models) == [threw |-> FALSE, models |-> models, message |-> <<>>]

Throws(message) == [threw |-> TRUE, models |-> <<>>, message |-> message]

\* variant: a failed request is answered with the static list, no exception
fetchOpenAIModelsSwallows(outcome) ==
  IF outcome.kind = "rejects" \/ outcome.status \notin 200..299
  THEN Returns(FALLBACK_MODELS.openai)
  ELSE LET chat == SelectSeq(outcome.ids, IsChatModel)
           chatModels == [i \in 1..Len(chat) |-> OpenaiId(chat[i])]
       IN  Returns(IF Len(chatModels) > 0 THEN chatModels ELSE FALLBACK_MODELS.openai)

\* fetchOpenAIModels, given what its request came to
fetchOpenAIModels(outcome) ==
  IF outcome.kind = "rejects" THEN Throws(<<outcome.message>>)
  ELSE IF outcome.status \notin 200..299
  THEN Throws(<<"OpenAI API error: ", ToString(outcome.status)>>)
  ELSE LET chat == SelectSeq(outcome.ids, IsChatModel)
           chatModels == [i \in 1..Len(chat) |-> OpenaiId(chat[i])]
       IN  Returns(IF Len(chatModels) > 0 THEN chatModels ELSE FALLBACK_MODELS.openai)

fetchAnthropicModels == FALLBACK_MODELS.anthropic

\* modelCache.get(provider) of a provider the Map does not hold
NoEntry == [none |-> TRUE]

\* getCachedModels' null
Null == <<"null">>

\* variant: an entry is still valid at the very end of the TTL
getCachedModelsInclusive(cache, provider, now) ==
  LET cached == cache[provider]
  IN  IF cached # NoEntry /\ now - cached.timestamp <= CACHE_TTL_MS
      THEN cached.models ELSE Null

\* the list of a valid entry, null otherwise
getCachedModels(cache, provider, now) ==
  LET cached == cache[provider]
  IN  IF cached # NoEntry /\ now - cached.timestamp < CACHE_TTL_MS
      THEN cached.models ELSE Null

\* variant: the list is added to the list of the entry the Map holds
setCachedModelsMerging(cache, provider, models, now) ==
  [cache EXCEPT ![provider] =
     [models |-> IF cache[provider] = NoEntry THEN models
                 ELSE cache[provider].models \o models,
      timestamp |-> now]]

\* variant: every list is stored under openai
setCachedModelsUnderOpenai(cache, provider, models, now) ==
  [cache EXCEPT !["openai"] = [models |-> models, timestamp |-> now]]

\* modelCache.set(provider, { models, timestamp: Date.now() })
setCachedModels(cache, provider, models, now) ==
  [cache EXCEPT ![provider] = [models |-> models, timestamp |-> now]]

\* the lookups of a run of the endpoint, and the days its clock covers
MaxLookups == 2

MaxDays == 1

Lookups == 1..MaxLookups

\* the instants the clock is read at: each end of a TTL, a millisecond before
\* and a millisecond after
Instants ==
  {t \in {k * CACHE_TTL_MS + e : k \in 0..MaxDays, e \in {0 - 1, 0, 1}} : t >= 0}

\* searchParams.get("provider") and searchParams.get("apiKey"), "" standing
\* for a parameter that is absent or empty
ProviderParams == {"", "openai", "anthropic", "groq", "xai", "constructor"}

ApiKeyParams == {"", "sk-1", "sk-2"}

CatalogProviders == ProviderParams \ {""}

NoResponse == [none |-> TRUE]

\* the lookup made no request to the models endpoint
NoOutcome == [kind |-> "none", status |-> 0, ids |-> <<>>, message |-> ""]

\* a lookup: its position, its parameters, its answer, and as history what it
\* found in the Map (found) and what its request came to (outcome)
NewLookup ==
  [pc |-> "new", provider |-> "", apiKey |-> "", found |-> "", outcome |-> NoOutcome,
   response |-> NoResponse]

\* the object handed to NextResponse.json
Response(models, provider, cached) ==
  [models |-> models, provider |-> provider, cached |-> cached]

ErrorResponse(models, provider, message) ==
  [models |-> models, provider |-> provider, cached |-> FALSE, error |-> message]

\* what the lookup found in the Map when it read the cache (history)
Found(provider) ==
  IF modelCache[provider] = NoEntry THEN "nothing"
  ELSE IF getCachedModels(modelCache, provider, clock) = Null THEN "expired"
  ELSE "valid"

\* variant: a hit stamps the entry again
GETRestampsOnHit(l) ==
  /\ lookups[l].pc = "new"
  /\ l > 1 => lookups[l - 1].pc # "new"
  /\ \E providerParam \in ProviderParams, apiKey \in ApiKeyParams :
       /\ apiKey # "" => providerParam \in {"", "openai"}
       /\ LET provider == IF providerParam = "" THEN "openai" ELSE providerParam
              cached == getCachedModels(modelCache, provider, clock)
              started == [lookups[l] EXCEPT !.provider = provider, !.apiKey = apiKey,
                                            !.found = Found(provider)]
              models == IF provider = "openai" THEN FALLBACK_MODELS.openai
                        ELSE FallbackOrEmpty(provider)
          IN  IF cached # Null
              THEN /\ lookups' = [lookups EXCEPT ![l] =
                                    [started EXCEPT !.pc = "done",
                                       !.response = Response(cached, provider, TRUE)]]
                   /\ modelCache' = setCachedModels(modelCache, provider, cached, clock)
              ELSE IF provider = "openai" /\ apiKey # ""
              THEN /\ lookups' = [lookups EXCEPT ![l] = [started EXCEPT !.pc = "fetching"]]
                   /\ UNCHANGED modelCache
              ELSE IF provider = "anthropic"
              THEN /\ lookups' = [lookups EXCEPT ![l] = [started EXCEPT !.pc = "awaiting"]]
                   /\ UNCHANGED modelCache
              ELSE /\ modelCache' = setCachedModels(modelCache, provider, models, clock)
                   /\ lookups' = [lookups EXCEPT ![l] =
                                    [started EXCEPT !.pc = "done",
                                       !.response = Response(models, provider, FALSE)]]
  /\ UNCHANGED clock
  /\ UNCHANGED <<runVars, call, runs>>

\* variant: a request that carries an apiKey does not use the cache
GETKeyBypassesCache(l) ==
  /\ lookups[l].pc = "new"
  /\ l > 1 => lookups[l - 1].pc # "new"
  /\ \E providerParam \in ProviderParams, apiKey \in ApiKeyParams :
       /\ apiKey # "" => providerParam \in {"", "openai"}
       /\ LET provider == IF providerParam = "" THEN "openai" ELSE providerParam
              cached == getCachedModels(modelCache, provider, clock)
              started == [lookups[l] EXCEPT !.provider = provider, !.apiKey = apiKey,
                                            !.found = Found(provider)]
              models == IF provider = "openai" THEN FALLBACK_MODELS.openai
                        ELSE FallbackOrEmpty(provider)
          IN  IF cached # Null /\ apiKey = ""
              THEN /\ lookups' = [lookups EXCEPT ![l] =
                                    [started EXCEPT !.pc = "done",
                                       !.response = Response(cached, provider, TRUE)]]
                   /\ UNCHANGED modelCache
              ELSE IF provider = "openai" /\ apiKey # ""
              THEN /\ lookups' = [lookups EXCEPT ![l] = [started EXCEPT !.pc = "fetching"]]
                   /\ UNCHANGED modelCache
              ELSE IF provider = "anthropic"
              THEN /\ lookups' = [lookups EXCEPT ![l] = [started EXCEPT !.pc = "awaiting"]]
                   /\ UNCHANGED modelCache
              ELSE /\ modelCache' = setCachedModels(modelCache, provider, models, clock)
                   /\ lookups' = [lookups EXCEPT ![l] =
                                    [started EXCEPT !.pc = "done",
                                       !.response = Response(models, provider, FALSE)]]
  /\ UNCHANGED clock
  /\ UNCHANGED <<runVars, call, runs>>

\* GET up to its first await: the cache is read; a hit answers at once; a
\* miss of openai with an apiKey starts the live fetch, a miss of anthropic
\* awaits fetchAnthropicModels, every other miss stores the static list and
\* answers
\* (apiKey is read on the openai branch only, so only the lookups of openai
\* carry one)
GET(l) ==
  /\ lookups[l].pc = "new"
  /\ l > 1 => lookups[l - 1].pc # "new"
  /\ \E providerParam \in ProviderParams, apiKey \in ApiKeyParams :
       /\ apiKey # "" => providerParam \in {"", "openai"}
       /\ LET provider == IF providerParam = "" THEN "openai" ELSE providerParam
              cached == getCachedModels(modelCache, provider, clock)
              started == [lookups[l] EXCEPT !.provider = provider, !.apiKey = apiKey,
                                            !.found = Found(provider)]
              models == IF provider = "openai" THEN FALLBACK_MODELS.openai
                        ELSE FallbackOrEmpty(provider)
          IN  IF cached # Null
              THEN /\ lookups' = [lookups EXCEPT ![l] =
                                    [started EXCEPT !.pc = "done",
                                       !.response = Response(cached, provider, TRUE)]]
                   /\ UNCHANGED modelCache
              ELSE IF provider = "openai" /\ apiKey # ""
              THEN /\ lookups' = [lookups EXCEPT ![l] = [started EXCEPT !.pc = "fetching"]]
                   /\ UNCHANGED modelCache
              ELSE IF provider = "anthropic"
              THEN /\ lookups' = [lookups EXCEPT ![l] = [started EXCEPT !.pc = "awaiting"]]
                   /\ UNCHANGED modelCache
              ELSE /\ modelCache' = setCachedModels(modelCache, provider, models, clock)
                   /\ lookups' = [lookups EXCEPT ![l] =
                                    [started EXCEPT !.pc = "done",
                                       !.response = Response(models, provider, FALSE)]]
  /\ UNCHANGED clock
  /\ UNCHANGED <<runVars, call, runs>>

\* variant: a failed fetch leaves GET as an exception
FetchSettlesRethrows(l) ==
  /\ lookups[l].pc = "fetching"
  /\ \E outcome \in FetchOutcomes :
       LET r == fetchOpenAIModels(outcome)
           provider == lookups[l].provider
       IN  IF r.threw
           THEN /\ lookups' = [lookups EXCEPT ![l].pc = "threw", ![l].outcome = outcome]
                /\ UNCHANGED modelCache
           ELSE /\ modelCache' = setCachedModels(modelCache, provider, r.models, clock)
                /\ lookups' = [lookups EXCEPT ![l].pc = "done", ![l].outcome = outcome,
                                  ![l].response = Response(r.models, provider, FALSE)]
  /\ UNCHANGED clock
  /\ UNCHANGED <<runVars, call, runs>>

\* GET after `await fetchOpenAIModels(apiKey)`: the list is stored and
\* answered; an exception is caught and answered with the static list and
\* the message, nothing being stored
FetchSettles(l) ==
  /\ lookups[l].pc = "fetching"
  /\ \E outcome \in FetchOutcomes :
       LET r == fetchOpenAIModels(outcome)
           provider == lookups[l].provider
       IN  IF r.threw
           THEN /\ lookups' = [lookups EXCEPT ![l].pc = "done", ![l].outcome = outcome,
                                  ![l].response =
                                    ErrorResponse(FallbackOrEmpty(provider), provider,
                                                  r.message)]
                /\ UNCHANGED modelCache
           ELSE /\ modelCache' = setCachedModels(modelCache, provider, r.models, clock)
                /\ lookups' = [lookups EXCEPT ![l].pc = "done", ![l].outcome = outcome,
                                  ![l].response = Response(r.models, provider, FALSE)]
  /\ UNCHANGED clock
  /\ UNCHANGED <<runVars, call, runs>>

\* GET after `await fetchAnthropicModels()`
AwaitResumes(l) ==
  /\ lookups[l].pc = "awaiting"
  /\ LET provider == lookups[l].provider
         models == fetchAnthropicModels
     IN  /\ modelCache' = setCachedModels(modelCache, provider, models, clock)
         /\ lookups' = [lookups EXCEPT ![l].pc = "done",
                           ![l].response = Response(models, provider, FALSE)]
  /\ UNCHANGED clock
  /\ UNCHANGED <<runVars, call, runs>>

\* time passes
Tick ==
  /\ \E t \in Instants : t > clock /\ clock' = t
  /\ UNCHANGED <<modelCache, lookups>>
  /\ UNCHANGED <<runVars, call, runs>>

\* ------------------------------------------- the tool functions in detail
\* One invocation of a tool function: its argument, its position, what its
\* sources gave so far, and what it returned.  out is the returned string as
\* the sequence of its pieces, <<>> the empty string.
NoCall ==
  [fn |-> "", arg |-> <<>>, pc |-> "none", results |-> <<>>, yields |-> <<>>,
   outcome |-> "", status |-> 0, raised |-> FALSE, out |-> <<>>]

NewCall(fn, arg) == [NoCall EXCEPT !.fn = fn, !.arg = arg, !.pc = "called"]

\* String(n) of a natural number
RECURSIVE NatToString(_)
NatToString(n) ==
  IF n < 10 THEN <<Digits[n + 1]>>
  ELSE NatToString(n \div 10) \o <<Digits[(n % 10) + 1]>>

\* ---- calculate
\* the characters /[^0-9+\-*/().%\s]/ keeps
IsCalcChar(c) ==
  IsDigit(c) \/ c \in {"+", "-", "*", "/", "(", ")", ".", "%"} \/ IsWs(c)

\* expression.replace(/[^0-9+\-*/().%\s]/g, "")
Sanitize(expression) == SelectSeq(expression, IsCalcChar)

Token(t, v) == [t |-> t, v |-> v]

\* The tokens of a source text made of digits 1..9, "+", "(", ")" and blanks:
\* a run of digits is one number, "++" is one token, blanks separate.
RECURSIVE Tokenize(_)
Tokenize(s) ==
  IF s = <<>> THEN <<>>
  ELSE IF IsWs(Head(s)) THEN Tokenize(Tail(s))
  ELSE IF IsDigit(Head(s))
       THEN LET n == DigitPrefixLen(s)
            IN  <<Token("num", DigitsValue(SubSeq(s, 1, n), 0))>>
                  \o Tokenize(Drop(s, n))
  ELSE IF Head(s) = "+" /\ Len(s) >= 2 /\ s[2] = "+"
       THEN <<Token("++", 0)>> \o Tokenize(Drop(s, 2))
  ELSE <<Token(Head(s), 0)>> \o Tokenize(Tail(s))

NoParse == [ok |-> FALSE, v |-> 0, rest |-> <<>>]

Parsed(v, rest) == [ok |-> TRUE, v |-> v, rest |-> rest]

\* The expression grammar on these tokens.  "++" needs a reference and a
\* number followed by "(" is a call of a number: both raise (SyntaxError,
\* TypeError), as does every text the grammar rejects.
RECURSIVE ParseExpression(_), ParseSum(_, _), ParseUnary(_), ParsePrimary(_)
ParseExpression(ts) ==
  LET u == ParseUnary(ts)
  IN  IF u.ok THEN ParseSum(u.v, u.rest) ELSE NoParse

ParseSum(acc, ts) ==
  IF ts # <<>> /\ Head(ts).t = "+"
  THEN LET u == ParseUnary(Tail(ts))
       IN  IF u.ok THEN ParseSum(acc + u.v, u.rest) ELSE NoParse
  ELSE Parsed(acc, ts)

ParseUnary(ts) ==
  IF ts = <<>> THEN NoParse
  ELSE IF Head(ts).t = "+" THEN ParseUnary(Tail(ts))
  ELSE ParsePrimary(ts)

ParsePrimary(ts) ==
  IF ts = <<>> THEN NoParse
  ELSE IF Head(ts).t = "num" THEN Parsed(Head(ts).v, Tail(ts))
  ELSE IF Head(ts).t = "("
       THEN LET e == ParseExpression(Tail(ts))
            IN  IF e.ok /\ e.rest # <<>> /\ Head(e.rest).t = ")"
                THEN Parsed(e.v, Tail(e.rest))
                ELSE NoParse
  ELSE NoParse

\* new Function(`return (${sanitized})`)(): [threw, v]
Evaluate(sanitized) ==
  LET e == ParseExpression(Tokenize(<<"(">> \o sanitized \o <<")">>))
  IN  IF e.ok /\ e.rest = <<>> THEN [threw |-> FALSE, v |-> e.v]
      ELSE [threw |-> TRUE, v |-> 0]

INVALID_EXPRESSION == <<"Invalid expression">>

COULD_NOT_EVALUATE == <<"Could not evaluate expression">>

\* calculate(expression): [threw, out]
CalculateResult(expression) ==
  LET sanitized == Sanitize(expression)
      r == Evaluate(sanitized)
  IN  IF sanitized = <<>> THEN [threw |-> FALSE, out |-> INVALID_EXPRESSION]
      ELSE IF r.threw THEN [threw |-> FALSE, out |-> COULD_NOT_EVALUATE]
      ELSE [threw |-> FALSE, out |-> NatToString(r.v)]

Calculate ==
  /\ call.pc = "called"
  /\ call.fn = "calculate"
  /\ LET r == CalculateResult(call.arg)
     IN  call' = [call EXCEPT !.pc = "returned", !.raised = r.threw, !.out = r.out]
  /\ UNCHANGED <<runVars, modelCache, clock, lookups, runs>>

\* ---- webSearch
MaxHits == 4

\* slice(0, 3) of every source, and results.length < 3
SOURCE_LIMIT == 3

UpperCase ==
  <<"A", "B", "C", "D", "E", "F", "G", "H", "I", "J", "K", "L", "M",
    "N", "O", "P", "Q", "R", "S", "T", "U", "V", "W", "X", "Y", "Z">>

LowerCase ==
  <<"a", "b", "c", "d", "e", "f", "g", "h", "i", "j", "k", "l", "m",
    "n", "o", "p", "q", "r", "s", "t", "u", "v", "w", "x", "y", "z">>

ToLower(c) ==
  IF \E i \in 1..26 : UpperCase[i] = c
  THEN LowerCase[CHOOSE i \in 1..26 : UpperCase[i] = c]
  ELSE c

ToLowerCase(s) == [i \in 1..Len(s) |-> ToLower(s[i])]

\* the alternatives of the keyword pattern
TechKeywords ==
  {<<"t","e","c","h">>,
   <<"p","r","o","g","r","a","m","m","i","n","g">>,
   <<"s","o","f","t","w","a","r","e">>,
   <<"s","t","a","r","t","u","p">>,
   <<"a","i">>,
   <<"m","a","c","h","i","n","e"," ","l","e","a","r","n","i","n","g">>,
   <<"j","a","v","a","s","c","r","i","p","t">>,
   <<"p","y","t","h","o","n">>,
   <<"r","e","a","c","t">>,
   <<"n","o","d","e">>}

\* /tech|programming|...|node/i.test(query)
IsTechQuery(query) == \E k \in TechKeywords : Includes(ToLowerCase(query), k)

WIKIPEDIA_URL == "https://en.wikipedia.org/wiki/"

Item(title, snippet, url) == [title |-> title, snippet |-> snippet, url |-> url]

\* What a source answered.  fetched: the request and the parse of its body
\* succeeded.  n: the entries of the list.  bad: the index of an entry whose
\* fields cannot be read (reading it throws), 0 when there is none.  skip: the
\* first skip entries lack a text or a url.  abstract: the AbstractURL of the
\* answer, <<>> when it has none.
SourceAnswer(fetched, n, bad, skip, abstract) ==
  [fetched |-> fetched, n |-> n, bad |-> bad, skip |-> skip, abstract |-> abstract]

NoAnswer == SourceAnswer(FALSE, 0, 0, 0, <<>>)

WikipediaResponses ==
  {NoAnswer} \cup {SourceAnswer(TRUE, n, bad, 0, <<>>) : n \in 0..MaxHits, bad \in 0..2}

DuckDuckGoResponses ==
  {NoAnswer}
  \cup {SourceAnswer(TRUE, n, bad, skip, a) :
          n \in 0..MaxHits, bad \in 0..2, skip \in 0..1,
          a \in {<<>>, <<"https://duckduckgo.com/", "abstract">>,
                 <<WIKIPEDIA_URL, "1">>}}

HackerNewsResponses ==
  {NoAnswer}
  \cup {SourceAnswer(TRUE, n, bad, skip, <<>>) : n \in 0..MaxHits, bad \in 0..2, skip \in 0..1}

Smaller(a, b) == IF a < b THEN a ELSE b

\* the indexes of the entries the loop of a source reads before it ends or
\* throws: those of slice(0, 3), up to the entry before the bad one
ReadIndexes(resp) ==
  LET k == Smaller(resp.n, SOURCE_LIMIT)
  IN  IF resp.bad \in 1..k THEN 1..(resp.bad - 1) ELSE 1..k

LoopThrows(resp) == resp.bad \in 1..Smaller(resp.n, SOURCE_LIMIT)

\* the entry i of a source as an element of results
ItemOf(source, i) ==
  CASE source = "wikipedia" ->
         Item("wikipedia title", "snippet", <<WIKIPEDIA_URL, Digits[i + 1]>>)
    [] source = "duckduckgo" ->
         Item("topic", "topic text", <<"https://duckduckgo.com/", Digits[i + 1]>>)
    [] OTHER ->
         Item("[HN] title", "0 points, 0 comments",
              <<"https://news.example/", Digits[i + 1]>>)

\* what the loop of a source pushes from entry i on: the entries it reads,
\* without those that lack a text or a url
RECURSIVE Collect(_, _, _)
Collect(source, resp, i) ==
  IF i > SOURCE_LIMIT THEN <<>>
  ELSE (IF i \in ReadIndexes(resp) /\ i > resp.skip THEN <<ItemOf(source, i)>>
        ELSE <<>>)
         \o Collect(source, resp, i + 1)

\* the body of the try of a source: [threw, items], items being what it
\* pushed to results before it ended or threw
FromWikipedia(resp) ==
  IF ~resp.fetched THEN [threw |-> TRUE, items |-> <<>>]
  ELSE [threw |-> LoopThrows(resp), items |-> Collect("wikipedia", resp, 1)]

FromDuckDuckGo(resp) ==
  LET abstract == IF resp.abstract # <<>>
                  THEN <<Item("heading", "abstract", resp.abstract)>>
                  ELSE <<>>
  IN  IF ~resp.fetched THEN [threw |-> TRUE, items |-> <<>>]
      ELSE [threw |-> LoopThrows(resp),
            items |-> abstract \o Collect("duckduckgo", resp, 1)]

FromHackerNews(resp) ==
  IF ~resp.fetched THEN [threw |-> TRUE, items |-> <<>>]
  ELSE [threw |-> LoopThrows(resp), items |-> Collect("hackernews", resp, 1)]

\* variant: a failure of a source is not caught next to the source
SourceFailureEscapes(r) == r

\* the catch of each source's try: the failure is dropped, what was pushed
\* stays
SourceFailureCaught(r) == [r EXCEPT !.threw = FALSE]

\* variant: the third source is queried for every technical query
QueriesHackerNewsAnyCount(results, query) == IsTechQuery(query)

\* the condition of the third source
QueriesHackerNews(results, query) ==
  Len(results) < SOURCE_LIMIT /\ IsTechQuery(query)

\* results.filter by the urls seen
RECURSIVE Deduplicate(_, _)
Deduplicate(results, seen) ==
  IF results = <<>> THEN <<>>
  ELSE IF Head(results).url \in seen THEN Deduplicate(Tail(results), seen)
  ELSE <<Head(results)>>
         \o Deduplicate(Tail(results), seen \cup {Head(results).url})

FormatResult(r, i) ==
  NatToString(i) \o <<". ", r.title, "\n">>
    \o (IF r.snippet # "" THEN <<"   ", r.snippet, "\n">> ELSE <<>>)
    \o <<"   URL: ">> \o r.url

\* uniqueResults.map(...).join("\n\n") from index i on
RECURSIVE FormatResults(_, _)
FormatResults(results, i) ==
  IF i > Len(results) THEN <<>>
  ELSE FormatResult(results[i], i)
         \o (IF i < Len(results) THEN <<"\n\n">> ELSE <<>>)
         \o FormatResults(results, i + 1)

NoSearchResults(query) ==
  <<"No search results found for \"">> \o query
    \o <<"\". Try rephrasing your query or using more specific terms.">>

SearchFailed(message) ==
  <<"Search failed: ", message, ". Try a different query.">>

\* what webSearch returns once its sources are done
WebSearchOutput(results, query) ==
  IF Len(results) = 0 THEN NoSearchResults(query)
  ELSE FormatResults(Deduplicate(results, {}), 1)

Yield(source, r) == [source |-> source, pushed |-> Len(r.items), failed |-> r.threw]

\* the outer catch of webSearch
WebSearchCatches(source, r) ==
  call' = [call EXCEPT !.pc = "returned",
                       !.yields = Append(@, Yield(source, r)),
                       !.out = SearchFailed("source failed")]

WebSearchWikipedia ==
  /\ call.pc = "called"
  /\ call.fn = "webSearch"
  /\ \E resp \in WikipediaResponses :
       LET r == FromWikipedia(resp)
       IN  IF SourceFailureCaught(r).threw THEN WebSearchCatches("wikipedia", r)
           ELSE call' = [call EXCEPT !.pc = "duckduckgo",
                                     !.results = @ \o r.items,
                                     !.yields = Append(@, Yield("wikipedia", r))]
  /\ UNCHANGED <<runVars, modelCache, clock, lookups, runs>>

\* the second source, then the condition of the third and, when it is not
\* queried, the return
WebSearchDuckDuckGo ==
  /\ call.pc = "duckduckgo"
  /\ \E resp \in DuckDuckGoResponses :
       LET r == FromDuckDuckGo(resp)
           results == call.results \o r.items
       IN  IF SourceFailureCaught(r).threw THEN WebSearchCatches("duckduckgo", r)
           ELSE IF QueriesHackerNews(results, call.arg)
           THEN call' = [call EXCEPT !.pc = "hackernews",
                                     !.results = results,
                                     !.yields = Append(@, Yield("duckduckgo", r))]
           ELSE call' = [call EXCEPT !.pc = "returned",
                                     !.results = results,
                                     !.yields = Append(@, Yield("duckduckgo", r)),
                                     !.out = WebSearchOutput(results, call.arg)]
  /\ UNCHANGED <<runVars, modelCache, clock, lookups, runs>>

WebSearchHackerNews ==
  /\ call.pc = "hackernews"
  /\ \E resp \in HackerNewsResponses :
       LET r == FromHackerNews(resp)
           results == call.results \o r.items
       IN  IF SourceFailureCaught(r).threw THEN WebSearchCatches("hackernews", r)
           ELSE call' = [call EXCEPT !.pc = "returned",
                                     !.results = results,
                                     !.yields = Append(@, Yield("hackernews", r)),
                                     !.out = WebSearchOutput(results, call.arg)]
  /\ UNCHANGED <<runVars, modelCache, clock, lookups, runs>>

\* ---- scrapeUrl
CONTENT_LIMIT == 6000

Statuses == {200, 204, 404, 500}

\* variant: every response is taken as a page
ResponseOkAlways(status) == TRUE

\* response.ok
ResponseOk(status) == status \in 200..299

StatusText(status) ==
  CASE status = 404 -> "Not Found"
    [] status = 500 -> "Internal Server Error"
    [] status = 204 -> "No Content"
    [] OTHER -> "OK"

\* What the request of scrapeUrl met.  kind: "rejected" (fetch rejects with
\* an Error), "rejected value" (it rejects with something that is no Error),
\* "body rejected" (the read of the body rejects), "response".  title,
\* metaDesc and length describe what the extraction finds in the body.
Scraped(kind, status, title, metaDesc, length) ==
  [kind |-> kind, status |-> status, title |-> title, metaDesc |-> metaDesc,
   length |-> length]

ScrapeOutcomes ==
  {Scraped(k, 0, "", "", 0) : k \in {"rejected", "rejected value"}}
  \cup {Scraped("body rejected", 200, "", "", 0)}
  \cup {Scraped("response", st, t, m, n) :
          st \in Statuses, t \in {"", "a title"}, m \in {"", "a summary"},
          n \in {0, 1, CONTENT_LIMIT, CONTENT_LIMIT + 1}}

FailedToScrape(message) == <<"Failed to scrape URL: ">> \o message

\* the output built from what the extraction found
ScrapeOutput(o) ==
  LET output ==
        (IF o.title # "" THEN <<"Title: ", o.title, "\n\n">> ELSE <<>>)
          \o (IF o.metaDesc # "" THEN <<"Summary: ", o.metaDesc, "\n\n">> ELSE <<>>)
          \o <<"Content:\n">>
          \o (IF o.length > 0 THEN <<"content.slice(0, 6000)">> ELSE <<>>)
          \o (IF o.length > CONTENT_LIMIT THEN <<"\n\n[Content truncated...]">>
              ELSE <<>>)
  IN  IF output # <<>> THEN output
      ELSE <<"Could not extract meaningful content from URL">>

\* scrapeUrl(url) when its request meets o: [threw, out]
ScrapeUrlResult(o) ==
  CASE o.kind = "rejected" ->
         [threw |-> FALSE, out |-> FailedToScrape(<<"fetch failed">>)]
    [] o.kind = "rejected value" ->
         [threw |-> FALSE, out |-> FailedToScrape(<<"Unknown error">>)]
    [] o.kind = "body rejected" ->
         [threw |-> FALSE, out |-> FailedToScrape(<<"terminated">>)]
    [] OTHER ->
         IF ~ResponseOk(o.status)
         THEN [threw |-> FALSE,
               out |-> FailedToScrape(<<"HTTP ">> \o NatToString(o.status)
                                        \o <<": ", StatusText(o.status)>>)]
         ELSE [threw |-> FALSE, out |-> ScrapeOutput(o)]

ScrapeUrl ==
  /\ call.pc = "called"
  /\ call.fn = "scrapeUrl"
  /\ \E o \in ScrapeOutcomes :
       LET r == ScrapeUrlResult(o)
       IN  call' = [call EXCEPT !.pc = "returned", !.outcome = o.kind,
                                !.status = o.status, !.raised = r.threw,
                                !.out = r.out]
  /\ UNCHANGED <<runVars, modelCache, clock, lookups, runs>>

\* ------------------------------------------------ runs side by side
MaxRuns == 2

MaxCallbacks == 2

MaxInvocations == 2

Runs == 1..MaxRuns

\* a run: the invocation it is in, the two locals of that invocation of
\* stepHandler, what its own callback was handed (history), what it returned
IdleRun ==
  [pc |-> "idle", invocation |-> 0, agentSteps |-> <<>>, toolCallCount |-> 0,
   delivered |-> <<>>, result |-> NoResult]

NoRuns == [r \in Runs |-> IdleRun]

\* the mark of the k-th callback of invocation i of run r
Mark(r, i, k) == <<"run", Digits[r + 1], Digits[i + 1], Digits[k + 1]>>

\* what generateText hands the callback: a turn with text or a turn with one
\* tool call and its result
StepEvents(r, i, k) ==
  {[toolCalls |-> <<>>, toolResults |-> <<>>, text |-> Mark(r, i, k)],
   [toolCalls |-> <<[toolName |-> "calculate", input |-> Mark(r, i, k)]>>,
    toolResults |-> <<[output |-> Mark(r, i, k)]>>, text |-> <<>>]}

\* stepHandler up to the await of generateText: fresh locals
RunStepHandler(r) ==
  /\ runs[r].pc \in {"idle", "done"}
  /\ runs[r].invocation < MaxInvocations
  /\ runs' = [runs EXCEPT ![r] = [IdleRun EXCEPT !.pc = "generating",
                                                 !.invocation = runs[r].invocation + 1]]
  /\ UNCHANGED <<runVars, modelCache, clock, lookups, call>>

\* variant: one accumulator and one counter for all runs
RunOnStepFinishShared(r) ==
  /\ runs[r].pc = "generating"
  /\ Len(runs[r].delivered) < MaxCallbacks
  /\ \E ev \in StepEvents(r, runs[r].invocation, Len(runs[r].delivered) + 1) :
       runs' = [q \in Runs |->
                 LET o == onStepFinish(runs[q].agentSteps, runs[q].toolCallCount,
                                       ev.toolCalls, ev.toolResults, ev.text)
                     d == IF q = r THEN Append(runs[q].delivered, ev)
                          ELSE runs[q].delivered
                 IN  [runs[q] EXCEPT !.agentSteps = o.steps,
                                     !.toolCallCount = o.count,
                                     !.delivered = d]]
  /\ UNCHANGED <<runVars, modelCache, clock, lookups, call>>

\* the callback of run r is called for a finished turn
RunOnStepFinish(r) ==
  /\ runs[r].pc = "generating"
  /\ Len(runs[r].delivered) < MaxCallbacks
  /\ \E ev \in StepEvents(r, runs[r].invocation, Len(runs[r].delivered) + 1) :
       LET o == onStepFinish(runs[r].agentSteps, runs[r].toolCallCount,
                             ev.toolCalls, ev.toolResults, ev.text)
       IN  runs' = [runs EXCEPT ![r].agentSteps = o.steps,
                                ![r].toolCallCount = o.count,
                                ![r].delivered = Append(@, ev)]
  /\ UNCHANGED <<runVars, modelCache, clock, lookups, call>>

\* generateText resolves and the run returns its locals
RunReturns(r) ==
  /\ runs[r].pc = "generating"
  /\ LET d == runs[r].delivered
         text == IF d = <<>> \/ d[Len(d)].text = <<>> THEN PLACEHOLDER
                 ELSE d[Len(d)].text
     IN  runs' = [runs EXCEPT ![r].pc = "done",
                              ![r].result = Success(text, runs[r].agentSteps,
                                                    runs[r].toolCallCount)]
  /\ UNCHANGED <<runVars, modelCache, clock, lookups, call>>

\* ------------------------------------------------------------------ inputs
BaseInput ==
  [integrationId |-> "int1", agentFirecrawlIntegrationId |-> "",
   agentProvider |-> "",
   agentModelOpenai |-> Undefined, agentModelAnthropic |-> Undefined,
   agentModelGoogle |-> Undefined, agentModelMeta |-> Undefined,
   agentModelMistral |-> Undefined, agentModelGroq |-> Undefined,
   agentModelXai |-> Undefined,
   agentShowAdvanced |-> "", agentTemperature |-> Undefined,
   agentMaxTokens |-> Undefined, agentTopP |-> Undefined,
   agentFrequencyPenalty |-> Undefined, agentPresencePenalty |-> Undefined,
   agentReasoningEffort |-> "", agentStopSequences |-> Undefined,
   agentResponseFormat |-> "",
   agentGoal |-> <<"g">>, agentTools |-> Undefined,
   agentMaxSteps |-> <<"2">>, agentSystemPrompt |-> ""]

Answer(throws, creds) == [throws |-> throws, creds |-> creds]

OpenaiOnly == [NoCredentials EXCEPT !.OPENAI_API_KEY = "sk-openai"]

GatewayOnly == [NoCredentials EXCEPT !.AI_GATEWAY_API_KEY = "gw-key"]

AgentAnswers ==
  {Answer(TRUE, NoCredentials), Answer(FALSE, NoCredentials),
   Answer(FALSE, OpenaiOnly), Answer(FALSE, GatewayOnly)}

FirecrawlAnswers ==
  {Answer(TRUE, [FIRECRAWL_API_KEY |-> ""]), Answer(FALSE, [FIRECRAWL_API_KEY |-> ""]),
   Answer(FALSE, [FIRECRAWL_API_KEY |-> "fc-key"])}

BaseEnv ==
  [agent |-> Answer(FALSE, GatewayOnly),
   firecrawl |-> Answer(FALSE, [FIRECRAWL_API_KEY |-> ""])]

ModelChoices ==
  {[p |-> "openai", f |-> "agentModelOpenai", m |-> OpenaiO1],
   [p |-> "", f |-> "agentModelOpenai", m |-> OpenaiO3Mini],
   [p |-> "openai", f |-> "agentModelOpenai", m |-> OpenaiO1Mini],
   [p |-> "openai", f |-> "agentModelOpenai", m |-> Gpt4o],
   [p |-> "anthropic", f |-> "agentModelAnthropic", m |-> ClaudeHaiku],
   [p |-> "anthropic", f |-> "agentModelOpenai", m |-> OpenaiO1],
   [p |-> "xai", f |-> "agentModelXai", m |-> Grok3]}

WithModel(in, c) == [in EXCEPT !.agentProvider = c.p, ![c.f] = c.m]

ToolSelections ==
  {Undefined, <<"firecrawl_scrape", ",", "calculate">>,
   <<"scrape_url", ",", "no_such_tool">>}

\* inputs of the runs: the base input changed in one respect
RunInputs ==
  {BaseInput}
  \cup {[BaseInput EXCEPT !.integrationId = ""]}
  \cup {[BaseInput EXCEPT !.agentMaxSteps = m] : m \in {<<"1">>, <<"9", "9">>}}
  \cup {[BaseInput EXCEPT !.agentGoal = g] : g \in {Undefined, <<>>, <<" ">>}}
  \cup {WithModel(BaseInput, c) : c \in {d \in ModelChoices : d.p = "openai"}}
  \cup {[BaseInput EXCEPT !.agentFirecrawlIntegrationId = "fc1", !.agentTools = t] :
          t \in ToolSelections}

RunEnvs ==
  {[BaseEnv EXCEPT !.agent = a] : a \in AgentAnswers}
  \cup {[BaseEnv EXCEPT !.firecrawl = f] : f \in FirecrawlAnswers}

\* inputs and answers of the credential lookup that decide the two
\* configuration errors together: the provider, a blank goal, and which keys
\* the integration holds
KeyInputs ==
  {[BaseInput EXCEPT !.agentProvider = p, !.agentMaxSteps = <<"1">>] :
     p \in {"anthropic", "meta", "xai"}}
  \cup {[BaseInput EXCEPT !.agentGoal = <<" ">>, !.agentMaxSteps = <<"1">>]}

KeyEnvs == {[BaseEnv EXCEPT !.agent = a] : a \in AgentAnswers}

Start ==
  /\ pc = "entry"
  /\ credentials = NoCredentials
  /\ firecrawlApiKey = ""
  /\ request = NoRequest
  /\ agentSteps = <<>>
  /\ toolCallCount = 0
  /\ turns = 0
  /\ lastCalls = 0
  /\ lastText = <<>>
  /\ result = NoResult
  /\ hist = NoHist
  /\ modelCache = [p \in CatalogProviders |-> NoEntry]
  /\ clock = 0
  /\ lookups = [l \in Lookups |-> NewLookup]
  /\ call = NoCall
  /\ runs = NoRuns

Init ==
  /\ \/ input \in RunInputs /\ env = BaseEnv
     \/ /\ input = [BaseInput EXCEPT !.agentFirecrawlIntegrationId = "fc1",
                                      !.agentTools = <<"firecrawl_scrape">>]
        /\ env \in RunEnvs
     \/ input \in KeyInputs /\ env \in KeyEnvs
  /\ Start

Next ==
  \/ FetchAgentCredentials
  \/ FetchFirecrawlCredentials
  \/ StepHandler
  \/ ModelTurn
  \/ GenerationRaises
  \/ GenerationReturns

Spec == Init /\ [][Next]_vars

\* --------------------------------------- configuration resolution on its own
Alphabet == {"-", ".", "0", "1", "5", "9", "a", " "}

Strings == UNION {[1..k -> Alphabet] : k \in 0..MaxLen} \cup {Undefined}

NumericFields ==
  {"agentMaxSteps", "agentTemperature", "agentMaxTokens", "agentTopP",
   "agentFrequencyPenalty", "agentPresencePenalty"}

StopSequenceInputs ==
  {<<>>, <<"a">>, <<"a", ",", " ", "b">>, <<" ", "a", " ">>, <<",">>}

\* inputs of the configuration: one numeric field given any string, or any
\* choice of model, reasoning effort and response format
ConfigInputs ==
  {[BaseInput EXCEPT ![f] = str, !.agentShowAdvanced = a] :
     f \in NumericFields, str \in Strings, a \in {"", "true", "false"}}
  \cup {[WithModel(BaseInput, c) EXCEPT !.agentReasoningEffort = e,
                                        !.agentResponseFormat = r,
                                        !.agentShowAdvanced = a] :
          c \in ModelChoices, e \in {"", "low", "high"}, r \in {"", "text", "json"},
          a \in {"", "true"}}
  \cup {[WithModel(BaseInput, c) EXCEPT !.agentStopSequences = q,
                                        !.agentShowAdvanced = a] :
          c \in {d \in ModelChoices : d.m \in {Gpt4o, OpenaiO1}},
          q \in StopSequenceInputs, a \in {"", "true", "false"}}

InitConfig ==
  /\ input \in ConfigInputs
  /\ env = BaseEnv
  /\ Start

NextConfig ==
  \/ FetchAgentCredentials
  \/ FetchFirecrawlCredentials
  \/ StepHandler

SpecConfig == InitConfig /\ [][NextConfig]_vars

\* ------------------------------------------ the key of the provider on its own
FullCredentials ==
  [AI_GATEWAY_API_KEY |-> "gw-key", OPENAI_API_KEY |-> "sk-openai",
   ANTHROPIC_API_KEY |-> "sk-anthropic", GOOGLE_API_KEY |-> "sk-google",
   GROQ_API_KEY |-> "sk-groq", MISTRAL_API_KEY |-> "sk-mistral",
   XAI_API_KEY |-> "sk-xai"]

\* every choice of which keys the integration holds
KeyChoices ==
  {[k \in DOMAIN FullCredentials |-> IF k \in S THEN FullCredentials[k] ELSE ""] :
     S \in SUBSET DOMAIN FullCredentials}

ProviderChoices ==
  {"", "openai", "anthropic", "google", "meta", "mistral", "groq", "xai", "other"}

InitKeys ==
  /\ input \in {[BaseInput EXCEPT !.agentProvider = p] : p \in ProviderChoices}
  /\ env \in {[BaseEnv EXCEPT !.agent = Answer(FALSE, c)] : c \in KeyChoices}
  /\ Start

SpecKeys == InitKeys /\ [][NextConfig]_vars

\* --------------------------------------------------- the tool set on its own
MaxSelected == 2

\* what a segment of agentTools may be: a registered name, a premium name, a
\* name the registry does not hold, a name every object inherits, nothing
ToolNameInputs ==
  {"web_search", "scrape_url", "http_request", "calculate", "firecrawl_search",
   "firecrawl_scrape", "no_such_tool", "constructor", ""}

\* names.join(","), an empty name giving an empty segment
RECURSIVE Join(_)
Join(names) ==
  IF names = <<>> THEN <<>>
  ELSE (IF Head(names) = "" THEN <<>> ELSE <<Head(names)>>)
       \o (IF Len(names) > 1 THEN <<",">> \o Join(Tail(names)) ELSE <<>>)

Selections ==
  {Undefined} \cup
  {Join(names) : names \in UNION {[1..k -> ToolNameInputs] : k \in 0..MaxSelected}}

InitTools ==
  /\ input \in {[BaseInput EXCEPT !.agentFirecrawlIntegrationId = f, !.agentTools = t] :
                  f \in {"", "fc1"}, t \in Selections}
  /\ env \in {[BaseEnv EXCEPT !.firecrawl = a] : a \in FirecrawlAnswers}
  /\ Start

SpecTools == InitTools /\ [][NextConfig]_vars

\* ------------------------------------------------------ the catalog endpoint
InitCatalog ==
  /\ input = BaseInput
  /\ env = BaseEnv
  /\ Start

NextCatalog ==
  \/ \E l \in Lookups : GET(l)
  \/ \E l \in Lookups : FetchSettles(l)
  \/ \E l \in Lookups : AwaitResumes(l)
  \/ Tick

SpecCatalog == InitCatalog /\ [][NextCatalog]_vars

\* ------------------------------------------------ the connection test
\* typedCredentials.X || ... over the seven keys
hasAnyKey(c) ==
  \/ c.AI_GATEWAY_API_KEY # ""
  \/ c.OPENAI_API_KEY # ""
  \/ c.ANTHROPIC_API_KEY # ""
  \/ c.GOOGLE_API_KEY # ""
  \/ c.GROQ_API_KEY # ""
  \/ c.MISTRAL_API_KEY # ""
  \/ c.XAI_API_KEY # ""

testProvider(c) ==
  IF c.OPENAI_API_KEY # "" THEN "openai"
  ELSE IF c.AI_GATEWAY_API_KEY # "" THEN "openai"
  ELSE IF c.ANTHROPIC_API_KEY # "" THEN "anthropic"
  ELSE IF c.GOOGLE_API_KEY # "" THEN "google"
  ELSE IF c.GROQ_API_KEY # "" THEN "groq"
  ELSE IF c.XAI_API_KEY # "" THEN "xai"
  ELSE "mistral"

testModel(provider) ==
  CASE provider = "anthropic" -> "anthropic/claude-3-haiku"
    [] provider = "google"    -> "google/gemini-2.0-flash"
    [] provider = "groq"      -> "groq/llama-3.1-8b"
    [] provider = "mistral"   -> "mistral/mistral-small"
    [] provider = "xai"       -> "xai/grok-3-mini-fast"
    [] OTHER                  -> "openai/gpt-4o-mini"

NO_KEY_ERROR ==
  "At least one API key is required. Add an AI Gateway key or a provider-specific key."

NO_VALID_KEY_ERROR == "Could not find a valid API key to test"

TEST_PROMPT == "Say 'agent ready' if you can read this."

TestFailure(message) == [success |-> FALSE, error |-> message]

TestSuccess == [success |-> TRUE]

\* what the gateway may raise for a key
TestErrors == {"Unauthorized", "fetch failed"}

\* testAiAgent up to the await of generateText
TestAiAgent ==
  /\ pc = "test"
  /\ IF ~hasAnyKey(credentials)
     THEN /\ result' = TestFailure(NO_KEY_ERROR)
          /\ pc' = "tested"
          /\ UNCHANGED request
     ELSE LET provider == testProvider(credentials)
              apiKey   == getProviderApiKey(credentials, provider)
          IN  IF apiKey = ""
              THEN /\ result' = TestFailure(NO_VALID_KEY_ERROR)
                   /\ pc' = "tested"
                   /\ UNCHANGED request
              ELSE /\ request' = [apiKey |-> apiKey, model |-> testModel(provider),
                                  prompt |-> TEST_PROMPT]
                   /\ pc' = "testing"
                   /\ UNCHANGED result
  /\ UNCHANGED <<input, env, credentials, firecrawlApiKey, agentSteps,
                 toolCallCount, turns, lastCalls, lastText, hist,
                 modelCache, clock, lookups, call, runs>>

\* generateText resolves: { success: true }
TestGenerationReturns ==
  /\ pc = "testing"
  /\ result' = TestSuccess
  /\ pc' = "tested"
  /\ UNCHANGED <<input, env, credentials, firecrawlApiKey, request, agentSteps,
                 toolCallCount, turns, lastCalls, lastText, hist,
                 modelCache, clock, lookups, call, runs>>

\* generateText rejects: the catch returns the message
TestGenerationRaises ==
  /\ pc = "testing"
  /\ \E m \in TestErrors : result' = TestFailure(m)
  /\ pc' = "tested"
  /\ UNCHANGED <<input, env, credentials, firecrawlApiKey, request, agentSteps,
                 toolCallCount, turns, lastCalls, lastText, hist,
                 modelCache, clock, lookups, call, runs>>

InitTest ==
  /\ input = BaseInput
  /\ env = BaseEnv
  /\ pc = "test"
  /\ credentials \in KeyChoices
  /\ firecrawlApiKey = ""
  /\ request = NoRequest
  /\ agentSteps = <<>>
  /\ toolCallCount = 0
  /\ turns = 0
  /\ lastCalls = 0
  /\ lastText = <<>>
  /\ result = NoResult
  /\ hist = NoHist
  /\ modelCache = [p \in CatalogProviders |-> NoEntry]
  /\ clock = 0
  /\ lookups = [l \in Lookups |-> NewLookup]
  /\ call = NoCall
  /\ runs = NoRuns

NextTest ==
  \/ TestAiAgent
  \/ TestGenerationReturns
  \/ TestGenerationRaises

SpecTest == InitTest /\ [][NextTest]_vars

\* ------------------------------------------- the tool functions on their own
\* characters of an expression: a letter, a blank, digits, "+", parentheses
ExprAlphabet == {"D", " ", "1", "2", "+", "(", ")"}

DROP_TABLE == <<"D", "R", "O", "P", " ", "T", "A", "B", "L", "E">>

Expressions == UNION {[1..k -> ExprAlphabet] : k \in 0..MaxLen} \cup {DROP_TABLE}

Queries ==
  {<<>>, <<"c", "a", "t", "s">>, <<"r", "a", "i", "n">>, <<"A", "I">>,
   <<"R", "e", "a", "c", "t", " ", "h", "o", "o", "k", "s">>}

Urls == {<<"https://example.com/">>, <<"https://unreachable.invalid/">>}

ToolCalls ==
  {NewCall("calculate", e) : e \in Expressions}
  \cup {NewCall("webSearch", q) : q \in Queries}
  \cup {NewCall("scrapeUrl", u) : u \in Urls}

InitToolFns ==
  /\ input = BaseInput
  /\ env = BaseEnv
  /\ pc = "entry"
  /\ credentials = NoCredentials
  /\ firecrawlApiKey = ""
  /\ request = NoRequest
  /\ agentSteps = <<>>
  /\ toolCallCount = 0
  /\ turns = 0
  /\ lastCalls = 0
  /\ lastText = <<>>
  /\ result = NoResult
  /\ hist = NoHist
  /\ modelCache = [p \in CatalogProviders |-> NoEntry]
  /\ clock = 0
  /\ lookups = [l \in Lookups |-> NewLookup]
  /\ call \in ToolCalls
  /\ runs = NoRuns

NextToolFns ==
  \/ Calculate
  \/ WebSearchWikipedia
  \/ WebSearchDuckDuckGo
  \/ WebSearchHackerNews
  \/ ScrapeUrl

SpecToolFns == InitToolFns /\ [][NextToolFns]_vars

\* ------------------------------------------------- runs side by side
InitRuns ==
  /\ input = BaseInput
  /\ env = BaseEnv
  /\ Start

NextRuns ==
  \/ \E r \in Runs : RunStepHandler(r)
  \/ \E r \in Runs : RunOnStepFinish(r)
  \/ \E r \in Runs : RunReturns(r)

SpecRuns == InitRuns /\ [][NextRuns]_vars


\* ================================================================== claims
Returned == pc = "done"

Succeeded == pc = "done" /\ result.success

Steps == result.data.steps

ToolCallEntries(steps) == {i \in 1..Len(steps) : steps[i].type = "tool_call"}

\* C1: in every successful run the returned toolCalls number is the number
\* of tool_call entries of the returned steps.
C1_ToolCallsCountsEntries ==
  Succeeded => result.data.toolCalls = Cardinality(ToolCallEntries(Steps))

\* a successful run of at least two callbacks, one of them with two tool calls
\* and a text
C1_Witness ==
  /\ Succeeded
  /\ Len(hist.answers) >= 2
  /\ \E k \in 1..Len(hist.answers) :
       Len(hist.answers[k].calls) = 2 /\ hist.answers[k].text # <<>>
  /\ result.data.toolCalls >= 3

\* the place of an entry: its kind, the turn and the index of the call it
\* belongs to, and its tool name
EntryKey(e) ==
  CASE e.type = "tool_call" ->
         [kind |-> "tool_call", turn |-> e.input.turn, idx |-> e.input.idx,
          toolName |-> e.toolName]
    [] e.type = "tool_result" ->
         [kind |-> "tool_result", turn |-> e.output.about.turn,
          idx |-> e.output.about.idx, toolName |-> e.toolName]
    [] e.type = "text" ->
         [kind |-> "text", turn |-> e.text[2], idx |-> 0, toolName |-> ""]

\* the entries one turn has to leave: call, result, call, result, ..., text
RECURSIVE ExpectedPairs(_, _, _)
ExpectedPairs(t, calls, i) ==
  IF i > Len(calls) THEN <<>>
  ELSE <<[kind |-> "tool_call", turn |-> t, idx |-> i, toolName |-> calls[i].toolName],
         [kind |-> "tool_result", turn |-> t, idx |-> i, toolName |-> calls[i].toolName]>>
       \o ExpectedPairs(t, calls, i + 1)

ExpectedTurn(t, answer) ==
  ExpectedPairs(t, answer.calls, 1)
  \o (IF answer.text = <<>> THEN <<>>
      ELSE <<[kind |-> "text", turn |-> t, idx |-> 0, toolName |-> ""]>>)

RECURSIVE ExpectedKeys(_, _)
ExpectedKeys(answers, t) ==
  IF t > Len(answers) THEN <<>>
  ELSE ExpectedTurn(t, answers[t]) \o ExpectedKeys(answers, t + 1)

\* C2: in the returned steps every tool_call is immediately followed by the
\* tool_result of the same call (same turn, same index, same tool name), the
\* pairs of a turn precede the text of the turn, and the turns appear in
\* callback order, nothing reordered, dropped or merged.
C2_PairedInCallbackOrder ==
  Succeeded =>
    /\ \A i \in ToolCallEntries(Steps) :
         /\ i < Len(Steps)
         /\ Steps[i + 1].type = "tool_result"
         /\ Steps[i + 1].toolName = Steps[i].toolName
         /\ Steps[i + 1].output.about = Steps[i].input
    /\ [i \in 1..Len(Steps) |-> EntryKey(Steps[i])] = ExpectedKeys(hist.answers, 1)

\* a successful run whose first turn made two calls of different tools and
\* gave a text, followed by another turn that recorded something
C2_Witness ==
  /\ Succeeded
  /\ Len(hist.answers) >= 2
  /\ Len(hist.answers[1].calls) = 2
  /\ hist.answers[1].calls[1].toolName # hist.answers[1].calls[2].toolName
  /\ hist.answers[1].text # <<>>
  /\ Len(Steps) >= 7

Generating == pc = "generating" \/ (pc = "done" /\ "stopWhen" \in DOMAIN request)

\* C3: a run makes at most N model turns, N being the effective step cap,
\* which lies between 1 and 50; so no run makes more than 50 turns, and a run
\* that was stopped by the cap returns the success record with what was
\* recorded up to the cap.
C3_AtMostCapTurns ==
  Generating =>
    /\ ~request.stopWhen.nan
    /\ request.stopWhen.v \in MinSteps..MaxSteps
    /\ turns <= request.stopWhen.v
    /\ turns <= 50
    /\ (Returned /\ turns = request.stopWhen.v /\ ~hist.raised /\ ~hist.threw) =>
         (result.success /\ Steps = agentSteps /\ Len(hist.answers) = turns)

\* a run with the cap at 50 in which the model asked for a tool in every
\* turn, stopped by the cap and returned
C3_Witness ==
  /\ Succeeded
  /\ turns = 50
  /\ lastCalls > 0
  /\ Len(Steps) >= 100

\* C4: when generateText rejects, before the first turn or after any number
\* of recorded turns, the run returns {success: false, error: {message}} with
\* a message and nothing else: no steps, no data.
C4_FailureDiscardsTranscript ==
  (Returned /\ (hist.raised \/ hist.threw)) =>
    /\ result.success = FALSE
    /\ DOMAIN result = {"success", "error"}
    /\ DOMAIN result.error = {"message"}
    /\ result.error.message # <<>>

\* generation raised after two recorded turns with entries in the transcript
C4_Witness ==
  /\ Returned
  /\ hist.raised
  /\ turns >= 2
  /\ Len(agentSteps) >= 4
  /\ ~result.success

\* the calls of the recorded answers that failed inside their tool function
FailedCalls ==
  {c \in [turn : 1..Len(hist.answers), idx : 1..MaxFreeCalls] :
     /\ c.idx <= Len(hist.answers[c.turn].calls)
     /\ hist.answers[c.turn].calls[c.idx].outcome = "fail"}

\* C5: a failure inside a tool call becomes the output string of that call,
\* recorded as its tool_result; by itself it never ends the run with
\* {success: false}: the run goes on generating and, unless generation itself
\* fails, returns a success.
C5_ToolFailureIsAnOutput ==
  (hist.toolFailed /\ ~hist.raised /\ ~hist.rejected) =>
    /\ pc = "generating" \/ Succeeded
    /\ \A c \in FailedCalls :
         \E j \in 1..Len(agentSteps) :
           /\ agentSteps[j].type = "tool_result"
           /\ agentSteps[j].output.about = c
           /\ agentSteps[j].output.msg \in ErrorOutputs

\* a run whose first turn had a failing tool call, continued with a later
\* turn and returned a success that holds the failure as a tool_result
C5_Witness ==
  /\ Succeeded
  /\ hist.failedTurn = 1
  /\ turns >= 2
  /\ \E j \in 1..Len(Steps) :
       Steps[j].type = "tool_result" /\ Steps[j].output.msg = "Failed to scrape URL: "

\* C6: runAgentStep always ends by returning a tagged record; no exception
\* leaves it, whichever collaborator fails.
C6_NoExceptionEscapes ==
  /\ pc # "threw"
  /\ Returned => result.success \in BOOLEAN


Configured == pc = "generating"

\* C7: for every agentMaxSteps string the effective cap lies in [1,50]; an
\* integer below 1 ("0" included) gives 1, an integer above 50 gives 50, a
\* missing or unparsable string gives the default 10.
C7_MaxStepsClamped ==
  Configured =>
    LET str == input.agentMaxSteps
        n   == IF str = Undefined THEN NaN ELSE ParseInt(str)
        cap == request.stopWhen
    IN  /\ ~cap.nan
        /\ cap.v \in 1..50
        /\ n.nan => cap.v = 10
        /\ (~n.nan /\ n.v < 1) => cap.v = 1
        /\ (~n.nan /\ n.v > 50) => cap.v = 50

InRange(x, lo, hi) == ~x.nan /\ lo * Scale <= x.v /\ x.v <= hi * Scale

\* C8: whatever string is given for temperature, topP and the two penalties,
\* the value sent to generation lies in its range: temperature in [0,2],
\* topP in [0,1], each penalty in [-2,2].
C8_SamplingInRange ==
  (Configured /\ "temperature" \in DOMAIN request) =>
    /\ InRange(request.temperature, 0, 2)
    /\ InRange(request.topP, 0, 1)
    /\ InRange(request.frequencyPenalty, -2, 2)
    /\ InRange(request.presencePenalty, -2, 2)

Unparsable(str, parse(_)) == str = Undefined \/ parse(str).nan

\* C9: a missing or unparsable string of a numeric field gives the default of
\* the field (10, 0.7, 4096, 1.0, 0, 0), never not-a-number.
C9_DefaultOnUnparsable ==
  (Configured /\ "temperature" \in DOMAIN request) =>
    /\ Unparsable(input.agentMaxSteps, ParseInt) => request.stopWhen = Num(10)
    /\ Unparsable(input.agentTemperature, ParseFloat) =>
         request.temperature = Num(7 * (Scale \div 10))
    /\ Unparsable(input.agentMaxTokens, ParseInt) => request.maxOutputTokens = Num(4096)
    /\ Unparsable(input.agentTopP, ParseFloat) => request.topP = Num(Scale)
    /\ Unparsable(input.agentFrequencyPenalty, ParseFloat) =>
         request.frequencyPenalty = Num(0)
    /\ Unparsable(input.agentPresencePenalty, ParseFloat) =>
         request.presencePenalty = Num(0)

SamplingKeys == {"temperature", "topP", "frequencyPenalty", "presencePenalty"}

HasReasoningEffort(req) ==
  /\ "providerOptions" \in DOMAIN req
  /\ "reasoningEffort" \in DOMAIN req.providerOptions.openai

\* C10: for a reasoning-class model (the ids the catalog flags as reasoning)
\* the request has none of the four sampling fields and has a reasoning
\* effort; for any other model it has the four sampling fields and no
\* reasoning effort.
C10_ReasoningModelRequest ==
  Configured =>
    IF request.model \in ReasoningCatalog
    THEN /\ SamplingKeys \cap DOMAIN request = {}
         /\ HasReasoningEffort(request)
         /\ request.providerOptions.openai.reasoningEffort \in {"low", "medium", "high"}
    ELSE /\ SamplingKeys \subseteq DOMAIN request
         /\ ~HasReasoningEffort(request)

\* the request of an o3 model with the advanced settings and JSON mode on
C10_Witness ==
  /\ Configured
  /\ request.model = OpenaiO3Mini
  /\ input.agentShowAdvanced = "true"
  /\ input.agentResponseFormat = "json"
  /\ request.providerOptions.openai.reasoningEffort = "high"

\* the provider a run asks for, and the credential field that holds its key
RequestedProvider == IF input.agentProvider = "" THEN "openai" ELSE input.agentProvider

KeyField ==
  [openai |-> "OPENAI_API_KEY", anthropic |-> "ANTHROPIC_API_KEY",
   google |-> "GOOGLE_API_KEY", groq |-> "GROQ_API_KEY",
   mistral |-> "MISTRAL_API_KEY", xai |-> "XAI_API_KEY"]

OwnKey ==
  IF RequestedProvider \in DOMAIN KeyField
  THEN credentials[KeyField[RequestedProvider]] ELSE ""

GatewayKey == credentials.AI_GATEWAY_API_KEY

HandlerRan == pc \in {"generating", "done"}

\* C11: the key the handler resolves is the requested provider's own key
\* whenever that key is set, otherwise the gateway key, otherwise none (the
\* run then stops with the failure); it is never the key of another provider.
C11_OwnKeyThenGateway ==
  HandlerRan =>
    LET expected == IF OwnKey # "" THEN OwnKey ELSE GatewayKey
    IN  /\ expected = "" => (pc = "done" /\ ~result.success /\ request = NoRequest)
        /\ expected # "" => (pc = "generating" /\ request.apiKey = expected)
        /\ pc = "generating" => request.apiKey \in {OwnKey, GatewayKey}

\* the provider's own key wins over the gateway key and over another
\* provider's key, all three being set
C11_Witness ==
  /\ pc = "generating"
  /\ RequestedProvider = "anthropic"
  /\ credentials.OPENAI_API_KEY # ""
  /\ GatewayKey # ""
  /\ request.apiKey = "sk-anthropic"


ProviderLabel ==
  [openai |-> "Openai", anthropic |-> "Anthropic", google |-> "Google",
   meta |-> "Meta", mistral |-> "Mistral", groq |-> "Groq", xai |-> "Xai"]

NoKeyMessage == <<"No API key configured for ", ProviderLabel[RequestedProvider]>>

NoUsableKey == OwnKey = "" /\ GatewayKey = ""

GenerationNotStarted ==
  /\ pc # "generating"
  /\ request = NoRequest
  /\ turns = 0
  /\ agentSteps = <<>>
  /\ hist = NoHist

\* C12: when neither the requested provider's key nor the gateway key is set,
\* the run returns {success: false} with a message that names the requested
\* provider, and generation is never called.
C12_NoKeyFailsBeforeGeneration ==
  NoUsableKey =>
    /\ GenerationNotStarted
    /\ Returned => (~result.success /\ result.error.message = NoKeyMessage)

\* a run for anthropic whose integration holds only the key of openai
C12_Witness ==
  /\ Returned
  /\ RequestedProvider = "anthropic"
  /\ credentials.OPENAI_API_KEY # ""
  /\ NoUsableKey
  /\ result.error.message = <<"No API key configured for ", "Anthropic">>

GoalBlank ==
  \/ input.agentGoal = Undefined
  \/ \A i \in 1..Len(input.agentGoal) : IsWs(input.agentGoal[i])

GoalMessage == <<"Goal is required for the agent">>

\* C13 as stated: when the goal is missing, empty or only whitespace, the run
\* returns {success: false} with the goal-required message, and neither tool
\* construction nor generation is attempted.
C13_GoalRequiredMessage ==
  (Returned /\ GoalBlank) =>
    /\ ~result.success
    /\ result.error.message = GoalMessage
    /\ GenerationNotStarted

\* C13, amended: a run with a missing, empty or whitespace-only goal builds
\* no tools and never starts generation; what it returns is {success: false},
\* with the goal-required message when a key was resolved for the provider
\* and with the missing-key message otherwise (the key is checked first).
C13_BlankGoalStopsRun ==
  GoalBlank =>
    /\ GenerationNotStarted
    /\ Returned =>
         /\ ~result.success
         /\ result.error.message = IF NoUsableKey THEN NoKeyMessage ELSE GoalMessage

\* a run with a whitespace-only goal and a usable key
C13_Witness ==
  /\ Returned
  /\ input.agentGoal = <<" ">>
  /\ ~NoUsableKey
  /\ result = Failure(GoalMessage)

\* C16: a run whose generation finishes, the step cap included, returns
\* {success: true}; its result is the final text when there is one and the
\* fixed placeholder string when there is none.
C16_ResultTextOrPlaceholder ==
  Succeeded =>
    LET final == hist.answers[Len(hist.answers)].text
    IN  /\ result.data.result # <<>>
        /\ result.data.result =
             IF final = <<>> THEN <<"Agent completed without a final response">>
             ELSE final

\* a run stopped by the step cap, its last turn a tool call without text
C16_Witness ==
  /\ Succeeded
  /\ turns = request.stopWhen.v
  /\ lastCalls > 0
  /\ hist.answers[turns].text = <<>>
  /\ agentSteps # <<>>
  /\ result.data.result = <<"Agent completed without a final response">>


\* the names a run selected: the segments of agentTools, or of the default
SelectedNames ==
  IF input.agentTools = Undefined \/ input.agentTools = <<>>
  THEN {"web_search", "scrape_url", "calculate"}
  ELSE ({input.agentTools[i] : i \in 1..Len(input.agentTools)} \ {","})
       \cup (IF \/ input.agentTools[1] = ","
                 \/ input.agentTools[Len(input.agentTools)] = ","
                 \/ \E i \in 1..(Len(input.agentTools) - 1) :
                      input.agentTools[i] = "," /\ input.agentTools[i + 1] = ","
              THEN {""} ELSE {})

NativeNames == {"web_search", "scrape_url", "http_request", "calculate"}

PremiumNames == {"firecrawl_search", "firecrawl_scrape"}

NativeOf(n) ==
  CASE n = "firecrawl_search" -> "web_search"
    [] n = "firecrawl_scrape" -> "scrape_url"
    [] OTHER -> n

SelectedList == SplitTools(StrOr(input.agentTools, DEFAULT_TOOLS))

OtherFirecrawlKey == IF firecrawlApiKey = "" THEN "fc-key" ELSE ""

\* C14 as stated: for every tool selection the set of tool names exposed to
\* the model is the same with and without a Firecrawl key, a selected premium
\* tool being replaced, when the key is absent, by its native equivalent
\* under the same declared name.
C14_SameNamesWithAndWithoutKey ==
  Configured =>
    DOMAIN request.tools = DOMAIN buildTools(SelectedList, OtherFirecrawlKey)

\* C14, amended: the names exposed without a Firecrawl key are the names
\* exposed with one after each premium name is replaced by the name of its
\* native equivalent (firecrawl_search by web_search, firecrawl_scrape by
\* scrape_url), the replacement running the native function; the two sets
\* differ exactly when a premium tool is selected.
C14_NamesUpToNativeRenaming ==
  Configured =>
    LET withKey    == DOMAIN buildTools(SelectedList, "fc-key")
        withoutKey == DOMAIN buildTools(SelectedList, "")
    IN  /\ DOMAIN request.tools = IF firecrawlApiKey = "" THEN withoutKey ELSE withKey
        /\ withKey \cap PremiumNames = SelectedNames \cap PremiumNames
        /\ withoutKey = {NativeOf(n) : n \in withKey}
        /\ withoutKey \cap PremiumNames = {}
        /\ (withKey = withoutKey) <=> (SelectedNames \cap PremiumNames = {})
        /\ \A n \in SelectedNames \cap PremiumNames :
             firecrawlApiKey = "" => request.tools[NativeOf(n)] = NativeTools[NativeOf(n)]

\* firecrawl_search selected without a key: web_search is exposed instead
C14_Witness ==
  /\ Configured
  /\ firecrawlApiKey = ""
  /\ "firecrawl_search" \in SelectedNames
  /\ "web_search" \notin SelectedNames
  /\ "web_search" \in DOMAIN request.tools
  /\ "firecrawl_search" \notin DOMAIN request.tools

IsToolName(n) == n \in NativeNames \cup PremiumNames

\* C15: a selected name other than the four native and the two premium tool
\* names adds nothing to the tool set and raises no error; the tools of the
\* other selected names are what they are without it.
C15_UnknownNameAddsNothing ==
  /\ pc # "threw"
  /\ ~Returned
  /\ Configured =>
       /\ DOMAIN request.tools \subseteq NativeNames \cup PremiumNames
       /\ request.tools = buildTools(SelectSeq(SelectedList, IsToolName), firecrawlApiKey)


\* a lookup reads the cache in this step / answers in this step
Starts(l) == lookups[l].pc = "new" /\ lookups'[l].pc # "new"

Answers(l) == lookups[l].pc # "done" /\ lookups'[l].pc = "done"

DayMs == 24 * 60 * 60 * 1000

\* the Map holds an entry of the provider stored less than 24 hours ago
FreshEntry(p) == modelCache[p] # NoEntry /\ clock - modelCache[p].timestamp < DayMs

IsHit(look) == look.pc = "done" /\ look.response.cached

HasError(look) == "error" \in DOMAIN look.response

\* C17: a lookup of a provider whose entry is younger than the TTL answers at
\* once with that entry's list tagged cached: true, makes no fetch and leaves
\* the cache as it was.
C17_HitServesEntry ==
  [][\A l \in Lookups :
       (Starts(l) /\ FreshEntry(lookups'[l].provider)) =>
         /\ lookups'[l].pc = "done"
         /\ lookups'[l].outcome = NoOutcome
         /\ lookups'[l].response =
              [models |-> modelCache[lookups'[l].provider].models,
               provider |-> lookups'[l].provider, cached |-> TRUE]
         /\ modelCache' = modelCache]_vars

\* a lookup of openai carrying an apiKey, served from an entry stored earlier
C17_Witness ==
  \E l \in Lookups :
    /\ IsHit(lookups[l])
    /\ lookups[l].provider = "openai"
    /\ lookups[l].apiKey # ""
    /\ lookups[l].found = "valid"
    /\ clock > modelCache["openai"].timestamp
    /\ lookups[l].response.models = modelCache["openai"].models

\* C18 as stated: an entry is valid for exactly 24 hours from its fetch time;
\* once expired every read treats it as absent, and the next read of the
\* provider evicts it.
C18_ExpiredEntryEvictedByNextRead ==
  [][\A l \in Lookups :
       /\ Starts(l) => (IsHit(lookups'[l]) <=> FreshEntry(lookups'[l].provider))
       /\ (Answers(l) /\ lookups'[l].found = "expired") =>
            \/ modelCache'[lookups'[l].provider] = NoEntry
            \/ clock - modelCache'[lookups'[l].provider].timestamp < DayMs]_vars

\* C18, amended: an entry is valid while less than 24 hours have passed since
\* it was stored, and from then on every read treats it as absent.  No step
\* removes an entry: time passing changes nothing in the Map, and the entry
\* of a provider changes only when a lookup of that provider that missed
\* stores the list it answers with; a lookup whose fetch failed stores
\* nothing, so the expired entry it found stays.
C18_ValidFor24HoursNeverRemoved ==
  [][/\ \A l \in Lookups :
          Starts(l) => (IsHit(lookups'[l]) <=> FreshEntry(lookups'[l].provider))
     /\ \A p \in CatalogProviders :
          modelCache'[p] # modelCache[p] =>
            /\ modelCache'[p] # NoEntry
            /\ modelCache'[p].timestamp = clock
            /\ \E l \in Lookups :
                 /\ Answers(l)
                 /\ lookups'[l].response =
                      [models |-> modelCache'[p].models, provider |-> p,
                       cached |-> FALSE]
     /\ \A l \in Lookups :
          (Answers(l) /\ HasError(lookups'[l])) => modelCache' = modelCache]_vars

\* an entry exactly 24 hours old was read as absent, the fetch of that lookup
\* failed, and the entry is still in the Map
C18_Witness ==
  \E l \in Lookups :
    /\ lookups[l].pc = "done"
    /\ lookups[l].found = "expired"
    /\ HasError(lookups[l])
    /\ modelCache[lookups[l].provider] # NoEntry
    /\ clock - modelCache[lookups[l].provider].timestamp = DayMs

\* FALLBACK_MODELS[provider] || [] as the claims read it: the static list of
\* the provider, the empty list when it has none, and for a provider named
\* like an inherited property that property
StaticList(p) ==
  IF p \in DOMAIN FALLBACK_MODELS THEN FALLBACK_MODELS[p]
  ELSE IF p = "constructor" THEN <<"Object">>
  ELSE <<>>

Stored(p, models) ==
  modelCache' = [modelCache EXCEPT ![p] = [models |-> models, timestamp |-> clock]]

\* C19 as stated: on a miss the lookup attempts a live fetch for openai and
\* uses the static list for every other provider, stores the resulting list
\* under the provider and returns it tagged cached: false; the following
\* lookup of the provider within the TTL is a hit returning that list.
C19_MissFetchesAndStores ==
  [][\A l \in Lookups :
       /\ (Starts(l) /\ ~FreshEntry(lookups'[l].provider)
             /\ lookups'[l].provider = "openai") => lookups'[l].pc = "fetching"
       /\ (Answers(l) /\ ~lookups'[l].response.cached) =>
            Stored(lookups'[l].provider, lookups'[l].response.models)
       /\ (Starts(l) /\ FreshEntry(lookups'[l].provider)) =>
            /\ IsHit(lookups'[l])
            /\ lookups'[l].response.models = modelCache[lookups'[l].provider].models]_vars

\* C19, amended: on a miss the lookup attempts a live fetch only for openai
\* and only when the request carries an apiKey; openai without an apiKey and
\* every other provider take FALLBACK_MODELS[provider] || [] without a
\* request.  Unless the live fetch fails, the list is stored under the
\* provider and returned tagged cached: false (a fetch that lists no chat
\* model giving the static list of openai), and a following lookup of the
\* provider within the TTL is a hit returning the stored list.  When the live
\* fetch fails nothing is stored.
C19_MissStoresUnlessFetchFails ==
  [][\A l \in Lookups :
       LET p == lookups'[l].provider
           answer == lookups'[l].response
       IN  /\ (Starts(l) /\ ~FreshEntry(p)) =>
                /\ lookups'[l].pc = "fetching" <=> (p = "openai" /\ lookups'[l].apiKey # "")
                /\ lookups'[l].pc = "awaiting" <=> p = "anthropic"
                /\ lookups'[l].pc = "done" =>
                     (answer = [models |-> StaticList(p), provider |-> p, cached |-> FALSE])
                /\ lookups'[l].pc # "done" => modelCache' = modelCache
           /\ (Answers(l) /\ ~answer.cached) =>
                /\ lookups'[l].outcome = NoOutcome => answer.models = StaticList(p)
                /\ lookups'[l].outcome # NoOutcome =>
                     /\ p = "openai"
                     /\ answer.models # <<>>
                     /\ lookups'[l].outcome.ids = <<"whisper-1">> =>
                          answer.models = StaticList("openai")
                /\ IF HasError(lookups'[l]) THEN modelCache' = modelCache
                   ELSE Stored(p, answer.models)
           /\ (Starts(l) /\ FreshEntry(p)) =>
                /\ IsHit(lookups'[l])
                /\ answer.models = modelCache[p].models]_vars

\* a live list fetched with an apiKey, stored, and served to the next lookup
C19_Witness ==
  \E l, m \in Lookups :
    /\ lookups[l].pc = "done" /\ ~lookups[l].response.cached
    /\ lookups[l].provider = "openai"
    /\ lookups[l].outcome.kind = "response"
    /\ lookups[l].response.models = <<"openai/gpt-4o", "openai/o1">>
    /\ IsHit(lookups[m])
    /\ lookups[m].provider = "openai"
    /\ lookups[m].response.models = lookups[l].response.models
    /\ modelCache["openai"].models = lookups[l].response.models

FetchFailed(look) ==
  \/ look.outcome.kind = "rejects"
  \/ look.outcome.kind = "response" /\ look.outcome.status \notin 200..299

\* C20: a lookup whose live fetch fails, by a status outside 2xx or by an
\* exception, answers with the static list of the provider and an error
\* field carrying the message; no lookup ends in an exception.
C20_FetchFailureAnswersFallback ==
  \A l \in Lookups :
    /\ lookups[l].pc \in {"new", "fetching", "awaiting", "done"}
    /\ FetchFailed(lookups[l]) =>
         /\ lookups[l].pc = "done"
         /\ lookups[l].response.models = StaticList(lookups[l].provider)
         /\ lookups[l].response.models # <<>>
         /\ lookups[l].response.provider = lookups[l].provider
         /\ lookups[l].response.cached = FALSE
         /\ HasError(lookups[l])
         /\ lookups[l].response.error =
              IF lookups[l].outcome.kind = "rejects" THEN <<lookups[l].outcome.message>>
              ELSE <<"OpenAI API error: ", "500">>
    /\ (lookups[l].pc = "done" /\ ~FetchFailed(lookups[l])) => ~HasError(lookups[l])

\* the models endpoint answered 500 and the lookup answered with the list
C20_Witness ==
  \E l \in Lookups :
    /\ lookups[l].pc = "done"
    /\ lookups[l].outcome.status = 500
    /\ lookups[l].response.error = <<"OpenAI API error: ", "500">>
    /\ lookups[l].response.models[1] = "openai/gpt-4o"


\* the lookup stored the list it answered with
Wrote(look) == look.pc = "done" /\ ~look.response.cached /\ ~HasError(look)

LiveList == <<"openai/gpt-4o", "openai/o1">>

\* the lists a lookup of the provider can produce, each whole
CompleteLists(p) ==
  {StaticList(p)} \cup (IF p = "openai" THEN {LiveList} ELSE {})

\* C24: lookups of one provider that interleave on a cold or expired cache
\* cause at most redundant fetches: every answer carries a whole list produced
\* by one of the lookups, and the Map holds for the provider one whole entry,
\* written by one of them, never a mixture.
C24_InterleavedLookupsKeepWholeEntries ==
  /\ \A l \in Lookups :
       lookups[l].pc = "done" =>
         /\ lookups[l].response.models \in CompleteLists(lookups[l].provider)
         /\ lookups[l].response.cached =>
              \E m \in Lookups \ {l} :
                /\ Wrote(lookups[m])
                /\ lookups[m].provider = lookups[l].provider
                /\ lookups[m].response.models = lookups[l].response.models
  /\ \A p \in CatalogProviders :
       modelCache[p] # NoEntry =>
         /\ DOMAIN modelCache[p] = {"models", "timestamp"}
         /\ modelCache[p].models \in CompleteLists(p)
         /\ modelCache[p].timestamp <= clock
         /\ \E l \in Lookups :
              /\ Wrote(lookups[l])
              /\ lookups[l].provider = p
              /\ lookups[l].response.models = modelCache[p].models

\* two lookups of openai that both read the cold cache, both fetched, got
\* different lists, and the Map holds the list of one of them
C24_Witness ==
  /\ Wrote(lookups[1]) /\ Wrote(lookups[2])
  /\ lookups[1].provider = "openai" /\ lookups[2].provider = "openai"
  /\ lookups[1].found = "nothing" /\ lookups[2].found = "nothing"
  /\ lookups[1].outcome.kind = "response" /\ lookups[2].outcome.kind = "response"
  /\ lookups[1].response.models # lookups[2].response.models
  /\ modelCache["openai"].models = lookups[1].response.models

\* C27: the cache is keyed by the provider only: within the TTL the list a
\* lookup gets does not depend on its apiKey; a static list stored by a lookup
\* without a key is served to a lookup with a key, which makes no fetch, and
\* a list fetched with a key is served to lookups with another key or none.
C27_CacheKeyedByProviderOnly ==
  [][\A l \in Lookups :
       Starts(l) =>
         LET p == lookups'[l].provider
         IN  /\ FreshEntry(p) =>
                  /\ lookups'[l].pc = "done"
                  /\ lookups'[l].outcome = NoOutcome
                  /\ lookups'[l].response.models = modelCache[p].models
                  /\ lookups'[l].response.cached
             /\ (lookups'[l].pc = "fetching") => ~FreshEntry(p)
             /\ \A q \in CatalogProviders :
                  modelCache[q] # NoEntry => DOMAIN modelCache[q] = {"models", "timestamp"}]_vars

\* a lookup with a key served the static list that a lookup without a key
\* had stored
C27_Witness ==
  \E l, m \in Lookups :
    /\ Wrote(lookups[l])
    /\ lookups[l].provider = "openai" /\ lookups[l].apiKey = ""
    /\ IsHit(lookups[m])
    /\ lookups[m].provider = "openai" /\ lookups[m].apiKey # ""
    /\ lookups[m].outcome = NoOutcome
    /\ lookups[m].response.models = StaticList("openai")

\* C28 as stated: a lookup whose live fetch fails leaves the cache unchanged,
\* the list it answers with is not stored, and so the next lookup of the
\* provider is not served from the cache.
C28_FailedFetchNextLookupMisses ==
  [][\A l \in Lookups :
       (Answers(l) /\ FetchFailed(lookups'[l])) =>
         /\ modelCache' = modelCache
         /\ ~(/\ modelCache'[lookups'[l].provider] # NoEntry
              /\ clock - modelCache'[lookups'[l].provider].timestamp < DayMs)]_vars

\* C28, amended: a lookup whose live fetch fails leaves the cache unchanged:
\* the list it answers with is not stored by it.  The next lookup of the
\* provider therefore misses again, and fetches again when it carries an
\* apiKey, unless another lookup that read the cache before the failure has
\* stored its own list meanwhile.
C28_FailedFetchStoresNothing ==
  [][\A l \in Lookups :
       /\ (Answers(l) /\ FetchFailed(lookups'[l])) =>
            /\ modelCache' = modelCache
            /\ FreshEntry(lookups'[l].provider) =>
                 \E m \in Lookups \ {l} :
                   /\ Wrote(lookups[m])
                   /\ lookups[m].provider = lookups[l].provider
                   /\ lookups[m].response.models =
                        modelCache[lookups[l].provider].models
       /\ (Starts(l) /\ ~FreshEntry(lookups'[l].provider)) =>
            /\ ~IsHit(lookups'[l])
            /\ (lookups'[l].provider = "openai" /\ lookups'[l].apiKey # "") =>
                 lookups'[l].pc = "fetching"]_vars

\* a lookup whose fetch failed on a cold cache, the Map still empty for the
\* provider, and the next lookup fetching again
C28_Witness ==
  \E l, m \in Lookups :
    /\ lookups[l].pc = "done" /\ FetchFailed(lookups[l])
    /\ lookups[l].found = "nothing"
    /\ lookups[m].pc = "fetching"
    /\ lookups[m].provider = lookups[l].provider
    /\ modelCache[lookups[l].provider] = NoEntry


AdvancedOff == input.agentShowAdvanced # "true"

\* the request the same input gives with agentShowAdvanced the other way
OtherAdvancedRequest ==
  BuildRequest([input EXCEPT !.agentShowAdvanced = IF @ = "true" THEN "" ELSE "true"],
               request.apiKey, request.model, request.prompt, request.tools)

Restricted(req, keys) == [k \in DOMAIN req \cap keys |-> req[k]]

\* C29 as stated: unless agentShowAdvanced is exactly "true" the temperature,
\* max-output-tokens, topP and penalty inputs are ignored and the defaults
\* 0.7, 4096, 1.0, 0, 0 are sent; reasoning effort, stop sequences and response
\* format are taken from the input whatever agentShowAdvanced is.
C29_DefaultsSentUnlessAdvanced ==
  (Configured /\ AdvancedOff) =>
    /\ request.maxOutputTokens = Num(4096)
    /\ SamplingKeys \subseteq DOMAIN request
    /\ request.temperature = Num(7 * (Scale \div 10))
    /\ request.topP = Num(Scale)
    /\ request.frequencyPenalty = Num(0)
    /\ request.presencePenalty = Num(0)

\* C29, amended: unless agentShowAdvanced is exactly "true" the temperature,
\* max-output-tokens, topP and penalty inputs are ignored: maxOutputTokens
\* 4096 is sent, and for a model that is not of the reasoning class
\* temperature 0.7, topP 1.0 and penalties 0, 0 are sent, a reasoning-class
\* model getting none of these four.  Reasoning effort, stop sequences and
\* response format come from the input whatever agentShowAdvanced is.
C29_AdvancedOffIgnoresSampling ==
  Configured =>
    /\ AdvancedOff =>
         /\ request.maxOutputTokens = Num(4096)
         /\ IF request.model \in ReasoningCatalog
            THEN SamplingKeys \cap DOMAIN request = {}
            ELSE /\ SamplingKeys \subseteq DOMAIN request
                 /\ request.temperature = Num(7 * (Scale \div 10))
                 /\ request.topP = Num(Scale)
                 /\ request.frequencyPenalty = Num(0)
                 /\ request.presencePenalty = Num(0)
    /\ Restricted(request, {"stopSequences", "providerOptions"})
         = Restricted(OtherAdvancedRequest, {"stopSequences", "providerOptions"})
    /\ ("stopSequences" \in DOMAIN request) <=>
         (input.agentStopSequences # Undefined /\ input.agentStopSequences # <<>>)
    /\ HasReasoningEffort(request) =>
         request.providerOptions.openai.reasoningEffort =
           IF input.agentReasoningEffort = "" THEN "medium"
           ELSE input.agentReasoningEffort
    /\ (input.agentResponseFormat = "json") <=>
         /\ "providerOptions" \in DOMAIN request
         /\ "responseFormat" \in DOMAIN request.providerOptions.openai

\* agentShowAdvanced "false" with a temperature given: 0.7 is sent
C29_Witness ==
  /\ Configured
  /\ input.agentShowAdvanced = "false"
  /\ input.agentTemperature = <<"1">>
  /\ request.temperature = Num(7 * (Scale \div 10))
  /\ request.maxOutputTokens = Num(4096)


SetKeys == {credentials[k] : k \in DOMAIN credentials} \ {""}

\* C30: in the connection test, whenever at least one of the seven keys is set
\* the provider picked resolves through getProviderApiKey to a key that is
\* set, so the "Could not find a valid API key to test" result never occurs;
\* with no key set the result is a failure and no generation call is made.
C30_PickedProviderHasKey ==
  /\ result # TestFailure(NO_VALID_KEY_ERROR)
  /\ SetKeys # {} =>
       /\ getProviderApiKey(credentials, testProvider(credentials)) \in SetKeys
       /\ pc # "test" =>
            /\ request # NoRequest
            /\ request.apiKey \in SetKeys
            /\ request.apiKey =
                 getProviderApiKey(credentials, testProvider(credentials))
  /\ SetKeys = {} =>
       /\ request = NoRequest
       /\ pc # "test" => result = TestFailure(NO_KEY_ERROR)
       /\ pc # "testing"

\* only the gateway key is set and the test has reached its generation call
C30_Witness ==
  /\ pc = "testing"
  /\ SetKeys = {FullCredentials.AI_GATEWAY_API_KEY}
  /\ request.apiKey = FullCredentials.AI_GATEWAY_API_KEY


CalculateReturned == call.fn = "calculate" /\ call.pc = "returned"

\* a digit or one of the operator characters of the whitelist
IsDigitOrOperator(c) ==
  IsDigit(c) \/ c \in {"+", "-", "*", "/", "(", ")", ".", "%"}

HasDigitOrOperator(e) == \E i \in 1..Len(e) : IsDigitOrOperator(e[i])

\* C21: calculate on an input with no digit and no operator character, such
\* as "DROP TABLE", returns "Invalid expression"; calculate never raises and
\* returns one of the two fixed error strings whenever the sanitized input is
\* empty or fails to evaluate.
C21_NoDigitNoOperatorIsInvalid ==
  CalculateReturned =>
    /\ ~HasDigitOrOperator(call.arg) => call.out = INVALID_EXPRESSION
    /\ ~call.raised
    /\ (Sanitize(call.arg) = <<>> \/ Evaluate(Sanitize(call.arg)).threw)
         => call.out \in {INVALID_EXPRESSION, COULD_NOT_EVALUATE}

\* what the code does on those inputs, for comparison: only an input that
\* sanitizes to the empty string gives "Invalid expression"
C21_EmptySanitizedIsInvalid ==
  CalculateReturned =>
    /\ (call.out = INVALID_EXPRESSION) <=> (Sanitize(call.arg) = <<>>)
    /\ ~call.raised
    /\ (~HasDigitOrOperator(call.arg) /\ Sanitize(call.arg) # <<>>)
         => call.out = COULD_NOT_EVALUATE

C21_DropTable ==
  /\ CalculateReturned
  /\ call.arg = DROP_TABLE
  /\ call.out = COULD_NOT_EVALUATE

\* values of the evaluation on sample texts
EvaluateSamples ==
  /\ CalculateResult(<<"1", "+", "2">>).out = <<"3">>
  /\ CalculateResult(<<"(", "1", ")">>).out = <<"1">>
  /\ CalculateResult(<<"1", "2", "+", "1">>).out = <<"1", "3">>
  /\ CalculateResult(<<"1", " ", "2">>).out = COULD_NOT_EVALUATE
  /\ CalculateResult(<<"+", "+", "1">>).out = COULD_NOT_EVALUATE
  /\ CalculateResult(<<"+", " ", "+", "1">>).out = <<"1">>
  /\ CalculateResult(<<"1", ")", "+", "(", "2">>).out = <<"3">>
  /\ CalculateResult(<<"1", "(", "2">>).out = COULD_NOT_EVALUATE
  /\ CalculateResult(<<"(", ")">>).out = COULD_NOT_EVALUATE
  /\ CalculateResult(<<"D">>).out = INVALID_EXPRESSION
  /\ CalculateResult(<<"D", "2", "D">>).out = <<"2">>


WebSearchReturned == call.fn = "webSearch" /\ call.pc = "returned"

\* no source put anything into results: each failed before it pushed an
\* entry, or answered with nothing usable
NothingYielded == \A i \in DOMAIN call.yields : call.yields[i].pushed = 0

Queried == [i \in DOMAIN call.yields |-> call.yields[i].source]

SourceOrder == <<"wikipedia", "duckduckgo", "hackernews">>

InSourceOrder == Queried = SubSeq(SourceOrder, 1, Len(Queried))

\* C26 as stated: the sources are queried in the order encyclopedic, general
\* web-answer, topic-specific; the third is queried whenever the query matches
\* the technical-keyword heuristic; a failure of an earlier source does not
\* prevent the later ones.
C26_ThirdSourceOnTechQuery ==
  /\ call.fn = "webSearch" => InSourceOrder
  /\ WebSearchReturned =>
       /\ Len(Queried) >= 2
       /\ IsTechQuery(call.arg) => Len(Queried) = 3

\* C26, amended: the sources are queried in that order; the third is queried
\* exactly when the query matches the technical-keyword heuristic and the
\* first two put fewer than three entries into results; a failure of an
\* earlier source does not prevent the later ones.
C26_ThirdSourceOnTechQueryFewResults ==
  /\ call.fn = "webSearch" => InSourceOrder
  /\ WebSearchReturned =>
       /\ Len(Queried) >= 2
       /\ Len(Queried) = 3 <=>
            /\ IsTechQuery(call.arg)
            /\ call.yields[1].pushed + call.yields[2].pushed < 3

\* both earlier sources failed and the third was queried
C26_Witness ==
  /\ WebSearchReturned
  /\ Len(Queried) = 3
  /\ call.yields[1].failed /\ call.yields[2].failed
  /\ call.yields[3].pushed > 0

ScrapeReturned == call.fn = "scrapeUrl" /\ call.pc = "returned"

ScrapeFailed ==
  \/ call.outcome \in {"rejected", "rejected value", "body rejected"}
  \/ call.outcome = "response" /\ call.status \notin 200..299

\* C23: scrapeUrl never raises; a network error or a non-2xx response is
\* returned as a string that starts with "Failed to scrape URL:", every other
\* outcome as a non-empty content string.
C23_ScrapeFailuresAreStrings ==
  /\ ~call.raised
  /\ ScrapeReturned =>
       /\ call.out # <<>>
       /\ ScrapeFailed => Head(call.out) = "Failed to scrape URL: "
       /\ ~ScrapeFailed =>
            /\ Head(call.out) # "Failed to scrape URL: "
            /\ \E i \in DOMAIN call.out : call.out[i] = "Content:\n"

\* a 404 answer came back as the failure string
C23_Witness ==
  /\ ScrapeReturned
  /\ call.outcome = "response"
  /\ call.status = 404
  /\ Head(call.out) = "Failed to scrape URL: "


\* the transcript entries of one callback
EntriesOf(ev) ==
  (IF ev.toolCalls # <<>>
   THEN <<[type |-> "tool_call", toolName |-> ev.toolCalls[1].toolName,
           input |-> ev.toolCalls[1].input],
          [type |-> "tool_result", toolName |-> ev.toolCalls[1].toolName,
           output |-> ev.toolResults[1].output]>>
   ELSE <<>>)
    \o (IF ev.text # <<>> THEN <<[type |-> "text", text |-> ev.text]>> ELSE <<>>)

RECURSIVE OwnEntries(_)
OwnEntries(delivered) ==
  IF delivered = <<>> THEN <<>>
  ELSE EntriesOf(Head(delivered)) \o OwnEntries(Tail(delivered))

RECURSIVE OwnCalls(_)
OwnCalls(delivered) ==
  IF delivered = <<>> THEN 0
  ELSE Len(Head(delivered).toolCalls) + OwnCalls(Tail(delivered))

MarkOf(e) ==
  CASE e.type = "tool_call" -> e.input
    [] e.type = "tool_result" -> e.output
    [] OTHER -> e.text

\* C25: with several runs executing side by side and their step callbacks
\* interleaved in any order, the steps and toolCalls a run returns are exactly
\* the entries its own callbacks recorded, with nothing of a previous or of a
\* concurrent run.
C25_RunsKeepOwnTranscript ==
  \A r \in Runs :
    runs[r].pc = "done" =>
      /\ runs[r].result.data.steps = OwnEntries(runs[r].delivered)
      /\ runs[r].result.data.toolCalls = OwnCalls(runs[r].delivered)
      /\ \A i \in DOMAIN runs[r].result.data.steps :
           LET m == MarkOf(runs[r].result.data.steps[i])
           IN  m[2] = Digits[r + 1] /\ m[3] = Digits[runs[r].invocation + 1]

\* run 1 returned from its second invocation while run 2 was in the middle
\* of its callbacks
C25_Witness ==
  /\ runs[1].pc = "done"
  /\ runs[1].invocation = 2
  /\ Len(runs[1].delivered) = 2
  /\ runs[1].result.data.toolCalls > 0
  /\ runs[2].pc = "generating"
  /\ Len(runs[2].delivered) = 1


====
